---- MODULE Spec2Model ----
(***************************************************************************)
(* Model of one recording document of the acoustic-analysis platform and   *)
(* of the code that reads and writes it:                                   *)
(*   - AnalysisPipeline.process_record run by several workers, each store  *)
(*     call being one atomic step (Spec);                                  *)
(*   - the multi-run container operations of MongoDBHandler and of the     *)
(*     batch domain-conversion job (SpecRuns);                             *)
(*   - the exception behaviour of every MongoDBHandler operation           *)
(*     (SpecHandler).                                                      *)
(* Every operation of the code is keyed by AnalyzeUUID and touches one     *)
(* document, so the model holds the state of one document.  The store is   *)
(* an external system: each call either executes atomically or raises,     *)
(* chosen nondeterministically (dbOk).  The processors are external too:   *)
(* each returns a usable result, an empty result, or raises.               *)
(***************************************************************************)
EXTENDS Integers, Sequences, FiniteSets, TLC

NumWorkers == 2
MaxRequeue == 1

Workers == 1..NumWorkers
NoFile == 0
LookupMiss == -1     \* the record was read and holds no entry of the wanted step
LookupFault == -2    \* get_record_by_uuid returned None

VARIABLES
    \* ---- the recording document
    current_step,        \* top-level current_step
    analysis_status,     \* top-level analysis_status ("absent" = field missing)
    error_message,       \* top-level error_message ("" = field missing)
    analyze_features,    \* [kind |-> "list", steps] or [kind |-> "container", ...]
    analysis_summary,    \* top-level analysis_summary ("none" = field missing)
    fileExt,             \* extension of files.raw.filename in the blob store
    \* ---- the temporary directory of the worker host
    files,               \* temporary files that exist
    nextFile,            \* next fresh temporary file name
    \* ---- one process_record call per worker
    pc,                  \* position in process_record
    snap,                \* _is_already_processed of the record argument, as loaded
    temp,                \* temp_file_path
    conv,                \* converted_file_path
    found,               \* index of the slice_step / leaf_step the lookup found
    result,              \* return value: "none" while running
    claimed,             \* outcome of try_claim_record in this call
    \* ---- history of the call and of the document
    tried,               \* steps this call attempted, in order
    okSteps,             \* steps this call completed successfully
    failedStep,          \* step whose _execute_stepN returned False, or -1
    created,             \* temporary files this call created
    wonPeriod,           \* idle period in which this call won its claim
    markLost,            \* a _mark_error of this call was lost to a store fault
    requeues,            \* number of re-queues so far (the idle period)
    resumeFrom,          \* current_step stored by the error before the last re-queue
    attempted,           \* some claim was evaluated in this idle period
    wins,                \* claims that succeeded in this idle period
    claimFault,          \* some claim of this idle period raised in the store
    \* ---- multi-run container operations (SpecRuns, SpecUpgrade)
    rpc,                 \* position of each actor in start_analysis_run / the batch job
    rsnap,               \* the record each actor read (analyze_features, analysis_summary)
    rflag,               \* the batch job's --overwrite flag
    ridx,                \* the run_index the actor computed
    nextId,              \* next fresh analysis_id (uuid4)
    returned,            \* containers returned by successive upgrades (SpecUpgrade)
    original,            \* the analyze_features the recording started with
    \* ---- handler operation outcomes (SpecHandler)
    hop,                 \* the handler operation called last
    hout,                \* what it gave its caller
    hfault,              \* whether a store call of it raised or the record was missing
    \* ---- the task scheduler (SpecScheduler)
    schedPc,             \* "idle", or "rules" inside _process_new_record's loops
    schedRecord,         \* the record being processed
    schedRule,           \* index of the matching rule the outer loop is at
    schedAct,            \* index of the action the inner loop is at
    configs,             \* the analysis config table: config_id -> missing/disabled/enabled
    sent,                \* task messages handed to publish_task, in order
    seenRecords,         \* the records observed so far, in order
    \* ---- the distributed analysis worker (SpecWorker)
    isRunning,           \* AnalysisServiceV2.is_running
    currentTaskCount,    \* AnalysisServiceV2.current_task_count
    hbTasks,             \* HeartbeatSender.current_tasks
    tpc,                 \* position of each task in _process_task
    tInstance,           \* the task's mongodb_instance selector ("" = absent)
    tHandler,            \* the store the handler _get_mongodb_connection returned talks to
    loadedFrom,          \* the store the task's record was loaded from
    pipeStore,           \* the store process_record worked on for the task
    stopPc,              \* position in stop()
    consumerOn,          \* the broker consumer delivers tasks
    heartbeatOn,         \* the heartbeat thread runs
    stopLog,             \* what stop() did, in order
    startedLate,         \* a task entered _process_task after stop() had begun
    deliveries,          \* tasks delivered so far
    \* ---- the upload application's schedule checker (SpecSchedules)
    schedule_checker_running,  \* the module flag of socket_events
    schedule_checker_lock,     \* 0 when free, else the connect handler holding it
    connPc,              \* position of each client's connect handler
    chkPc,               \* position of each background task started so far
    chkTime,             \* current_time of the pass a task is in
    chkList,             \* the (device, schedule) pairs its pass still has to visit
    execution_locks,     \* per device: no lock yet, free, or the task holding it
    device_schedules,    \* the schedule table, in insertion order
    schedObj,            \* the RecordingSchedule objects created so far
    nextSchedule,        \* the next schedule object to be created
    connected,           \* devices that have a session in connected_clients
    now,                 \* the clock
    recordsSent,         \* record commands sent for each schedule object
    firedDue,            \* the (schedule, due time) pairs a command was sent for
    doubleFired,         \* a command was sent twice for one due time
    removedOnCompletion, \* table entries deleted by a completing tick
    \* ---- the node monitor (SpecMonitor)
    previous_node_status, \* NodeMonitor.previous_node_status ("none": no entry)
    tickListing,         \* the status get_all_nodes gave each node at the last tick
    priorListing,        \* the same for the tick before it
    notified,            \* node-online and node-offline notifications of the last tick
    statsSent,           \* stats updates emitted by the last tick
    \* ---- the bulk delete and the database reset (SpecDelete)
    opKind,              \* "batch_delete" or "reset"
    maxDeleteCount,      \* SAFETY_CONFIG['max_delete_count']
    requireConfirmation, \* SAFETY_CONFIG['require_confirmation']
    backupBeforeDelete,  \* DELETE_BEHAVIOR['backup_before_delete']
    softDelete,          \* DELETE_BEHAVIOR['soft_delete']
    deleteGridfs,        \* DELETE_BEHAVIOR['delete_gridfs_files']
    selected,            \* the records the configured conditions select
    dStore,              \* the documents of the recordings collection
    dFlagged,            \* documents carrying the soft-delete flag
    dBlobs,              \* records whose blob exists
    dpc,                 \* position of the operation
    countAtCheck,        \* the record count the operation obtained
    promptShown,         \* the confirmation prompt was printed
    answer,              \* what the operator typed at the prompt
    backupDone,          \* the backup export returned success
    backupSet,           \* the records the backup file holds
    deletedByOp,         \* documents the operation removed
    flaggedByOp,         \* documents the operation flagged
    blobsDeletedByOp,    \* blobs the operation removed
    \* ---- the instance watchers of the task scheduler (SpecWatchers)
    schedRunning,        \* TaskScheduler.running
    wPc,                 \* per instance: position of its watcher thread
    retry_count,         \* per instance: retry_count of its current thread
    lastDelay,           \* per instance: seconds the thread slept after its last failure
    gaveUp,              \* per instance: a thread reached max_retries and ended
    triedAfterGiveUp,    \* per instance: a connection was attempted after that
    restarted,           \* per instance: _check_watchers started a new thread
    supervised,          \* no thread ended since the last _check_watchers pass
    \* ---- the polling watcher of one instance (SpecPolling)
    pollPc,              \* position of _watch_with_polling
    pollClock,           \* the clock: every reading of it is later than the one before
    last_check_time,     \* the local last_check_time
    upload_time,         \* per recording: info_features.upload_time, 0 before it is inserted
    uploadType,          \* per recording: the BSON type upload_time was stored with
    duringWatch,         \* recordings inserted while the polling watcher was running
    pollBatch,           \* recordings of the current query not yet processed
    dispatched,          \* per recording: calls of _process_new_record
    \* ---- the node registry and the workers' heartbeats (SpecRegistry)
    nodeDoc,             \* per node: its nodes_status document exists
    beatAge,             \* per node: heartbeat intervals since last_heartbeat was written
    workerUp,            \* per node: the worker registered and runs its heartbeat sender
    expiredRunning,      \* per node: the TTL index removed its document while it ran
    beatAfterExpiry,     \* per node: a heartbeat was handled after that removal
    lastAnswer,          \* per node: what the sender logged for its last heartbeat
    \* ---- the control plane's routes (SpecAccess)
    cpPresent,           \* per kind of control-plane object: the object exists
    cpEnabled,           \* per kind: its enabled flag
    lastWriter,          \* per kind: who made the last request that changed the object
    readBy,              \* the requesters a read route has answered with data
    \* ---- the upload paths (SpecUpload)
    upPc,                \* per batch run: position in upload_single_file
    upAttempt,           \* per batch run: upload attempts made for the file
    upOutcome,           \* per batch run: how the run counted the file
    upProgress,          \* per batch run: the file's hash is in self.progress
    progressFile,        \* the file's hash is in the progress file on disk
    upBlobs,             \* per uploaded file: the blobs stored for it
    upDocs,              \* per uploaded file: the blobs its documents reference
    nextBlob,            \* the next blob id
    \* ---- the classification summary (SpecSummary)
    sumInput,            \* the predictions passed to _calculate_summary
    sumOut,              \* the summary it returned
    \* ---- the per-label limit of the MIMII uploader (SpecLimit)
    limFolders,          \* files of the label found in each source folder
    limLimit,            \* the per-label limit
    limKept              \* per folder: the files _apply_label_limit kept

docVars == <<current_step, analysis_status, error_message, analyze_features,
            analysis_summary, fileExt>>
fsVars == <<files, nextFile>>
callVars == <<pc, snap, temp, conv, found, result, claimed>>
histVars == <<tried, okSteps, failedStep, created, wonPeriod, markLost, requeues, resumeFrom,
              attempted, wins, claimFault>>
runVars == <<rpc, rsnap, rflag, ridx, nextId, returned, original>>
handlerVars == <<hop, hout, hfault>>
schedVars == <<schedPc, schedRecord, schedRule, schedAct, configs, sent, seenRecords>>
\* the services that share no state with the recording's pipeline
workerVars == <<isRunning, currentTaskCount, hbTasks, tpc, tInstance, tHandler, loadedFrom,
                pipeStore, stopPc, consumerOn, heartbeatOn, stopLog, startedLate, deliveries>>
tickVars == <<schedule_checker_running, schedule_checker_lock, connPc, chkPc, chkTime, chkList,
              execution_locks, device_schedules, schedObj, nextSchedule, connected, now,
              recordsSent, firedDue, doubleFired, removedOnCompletion>>
monVars == <<previous_node_status, tickListing, priorListing, notified, statsSent>>
delVars == <<opKind, maxDeleteCount, requireConfirmation, backupBeforeDelete, softDelete,
             deleteGridfs, selected, dStore, dFlagged, dBlobs, dpc, countAtCheck, promptShown,
             answer, backupDone, backupSet, deletedByOp, flaggedByOp, blobsDeletedByOp>>
watchVars == <<schedRunning, wPc, retry_count, lastDelay, gaveUp, triedAfterGiveUp, restarted,
               supervised>>
pollVars == <<pollPc, pollClock, last_check_time, upload_time, uploadType, duringWatch, pollBatch,
              dispatched>>
regVars == <<nodeDoc, beatAge, workerUp, expiredRunning, beatAfterExpiry, lastAnswer>>
accessVars == <<cpPresent, cpEnabled, lastWriter, readBy>>
uploadVars == <<upPc, upAttempt, upOutcome, upProgress, progressFile, upBlobs, upDocs, nextBlob>>
sumVars == <<sumInput, sumOut>>
limVars == <<limFolders, limLimit, limKept>>
moreVars == <<watchVars, pollVars, regVars, accessVars, uploadVars, sumVars, limVars>>
restVars == <<tickVars, monVars, delVars, moreVars>>
laterVars == <<schedVars, workerVars, restVars>>
outsidePipeline == <<runVars, handlerVars, laterVars>>
coreVars == <<docVars, fsVars, callVars, histVars, runVars, handlerVars>>
exceptSched == <<coreVars, workerVars, restVars>>
exceptWorker == <<coreVars, schedVars, restVars>>
exceptTick == <<coreVars, schedVars, workerVars, monVars, delVars, moreVars>>
exceptMon == <<coreVars, schedVars, workerVars, tickVars, delVars, moreVars>>
exceptDel == <<coreVars, schedVars, workerVars, tickVars, monVars, moreVars>>
secondVars == <<schedVars, workerVars, tickVars, monVars, delVars>>
exceptWatch == <<coreVars, secondVars, pollVars, regVars, accessVars, uploadVars, sumVars, limVars>>
exceptPoll == <<coreVars, secondVars, watchVars, regVars, accessVars, uploadVars, sumVars, limVars>>
exceptReg == <<coreVars, secondVars, watchVars, pollVars, accessVars, uploadVars, sumVars, limVars>>
exceptAccess == <<coreVars, secondVars, watchVars, pollVars, regVars, uploadVars, sumVars, limVars>>
exceptUpload == <<coreVars, secondVars, watchVars, pollVars, regVars, accessVars, sumVars, limVars>>
exceptSum == <<coreVars, secondVars, watchVars, pollVars, regVars, accessVars, uploadVars, limVars>>
exceptLim == <<coreVars, secondVars, watchVars, pollVars, regVars, accessVars, uploadVars, sumVars>>
vars == <<docVars, fsVars, callVars, histVars, runVars, handlerVars, laterVars>>

(***************************************************************************)
(* Pure helpers of the pipeline and the handler.                           *)
(***************************************************************************)

\* The document as inserted by the upload paths: current_step 0, no
\* analysis_status, analyze_features an empty legacy array.
LegacyList(steps) == [kind |-> "list", steps |-> steps]

\* A Step entry as the save_* operations build it.
StepDoc(n, data, path) == [features_step |-> n, features_data |-> data, converted_path |-> path]

\* try_claim_record's filter: current_step = 0 and analysis_status in [pending, None]
ClaimFilterUuidOnly(cs, st) == TRUE
ClaimFilter(cs, st) == cs = 0 /\ st \in {"pending", "absent"}

\* find_pending_records' query
PendingQuery(cs, st) == cs = 0 /\ st \notin {"processing", "completed", "error"}

\* _is_already_processed(record)
IsAlreadyProcessed(rec) == rec.current_step >= 4 \/ rec.analysis_status = "completed"

\* AudioConverter.needs_conversion: true only for .csv
NeedsConversion(ext) == ext = "csv"

\* Steps process_record has to run for a file of this extension
Required(ext) == IF NeedsConversion(ext) THEN 0..3 ELSE 1..3

\* Step 2 / Step 3 input lookup: the first entry whose features_step is n
\* (0 when there is none).
FindStepPositional(steps, n) == IF n + 1 <= Len(steps) THEN n + 1 ELSE 0
FindStep(steps, n) ==
    IF \E i \in 1..Len(steps) : steps[i].features_step = n
    THEN CHOOSE i \in 1..Len(steps) :
            /\ steps[i].features_step = n
            /\ \A j \in 1..(i - 1) : steps[j].features_step # n
    ELSE 0

\* Where process_record goes after _execute_stepN returned ok (True/False).
AfterStepIgnoringFailure(n, ok) ==
    CASE n = 0 -> IF ok THEN "s0_read" ELSE "done"
      [] n = 1 -> "s2_start"
      [] n = 2 -> "s3_start"
      [] OTHER -> "cleanup"
AfterStep(n, ok) ==
    CASE n = 0 -> IF ok THEN "s0_read" ELSE "done"
      [] n = 1 -> IF ok THEN "s2_start" ELSE "cleanup"
      [] n = 2 -> IF ok THEN "s3_start" ELSE "cleanup"
      [] OTHER -> "cleanup"

\* What each save_* operation stores at the top level of the document.
StepStatus(n) ==
    CASE n = 0 -> "converted"
      [] n = 1 -> "sliced"
      [] n = 2 -> "features_extracted"
      [] OTHER -> "completed"
StepCurrent(n) == IF n = 3 THEN 4 ELSE n
StepData(n) ==
    CASE n = 0 -> "conversion"
      [] n = 1 -> "slices"
      [] n = 2 -> "leaf"
      [] OTHER -> "classification"

\* Where process_record goes after try_claim_record and _is_already_processed.
AfterClaim(won, processed) ==
    IF ~won THEN "done"
    ELSE IF processed THEN "done" ELSE "fetch"

(***************************************************************************)
(* Store operations of MongoDBHandler used by the pipeline.  dbOk = FALSE  *)
(* is update_one / find_one raising: the handler catches, logs and         *)
(* returns False / None, and nothing is written.                           *)
(***************************************************************************)

\* update_record_step(uuid, step, status, error_message)
UpdateRecordStep(step, status, msg, dbOk) ==
    IF dbOk
    THEN /\ current_step' = step
         /\ analysis_status' = status
         /\ error_message' = IF msg # "" THEN msg ELSE error_message
    ELSE UNCHANGED <<current_step, analysis_status, error_message>>

\* _mark_error(uuid, message, step = 0)
MarkError(msg, step, dbOk) == UpdateRecordStep(step, "error", msg, dbOk)

\* save_*_results without analysis_id: $push to the legacy array and $set
\* current_step / analysis_status; modified_count > 0 iff the update ran.
SaveOk(dbOk) == dbOk /\ analyze_features.kind = "list"
SaveStep(n, path, dbOk) ==
    IF SaveOk(dbOk)
    THEN /\ analyze_features' =
                LegacyList(Append(analyze_features.steps, StepDoc(n, StepData(n), path)))
         /\ current_step' = StepCurrent(n)
         /\ analysis_status' = StepStatus(n)
         /\ analysis_summary' = IF n = 3 THEN "summary" ELSE analysis_summary
         /\ UNCHANGED error_message
    ELSE UNCHANGED <<current_step, analysis_status, error_message, analyze_features,
                     analysis_summary>>

(***************************************************************************)
(* process_record, one store call per step.                                *)
(***************************************************************************)

MaxFiles == 2 * (MaxRequeue + 1) * NumWorkers

\* analysis_main._process_task: find_one by AnalyzeUUID, then process_record(record)
Load(w) ==
    /\ pc[w] = "idle"
    /\ pc' = [pc EXCEPT ![w] = "claim"]
    /\ snap' = [snap EXCEPT ![w] =
                  IsAlreadyProcessed([current_step |-> current_step,
                                      analysis_status |-> analysis_status])]
    /\ UNCHANGED <<docVars, fsVars, temp, conv, found, result, claimed, histVars,
                   outsidePipeline>>

\* try_claim_record, then _is_already_processed
TryClaimRecord(w) ==
    /\ pc[w] = "claim"
    /\ \E dbOk \in BOOLEAN :
         LET won == dbOk /\ ClaimFilter(current_step, analysis_status)
             nxt == AfterClaim(won, snap[w])
         IN /\ IF won
               THEN current_step' = 1 /\ analysis_status' = "processing"
               ELSE UNCHANGED <<current_step, analysis_status>>
            /\ claimed' = [claimed EXCEPT ![w] = IF won THEN "won" ELSE "lost"]
            /\ pc' = [pc EXCEPT ![w] = nxt]
            /\ result' = [result EXCEPT ![w] = IF nxt = "done" THEN "true" ELSE "none"]
            /\ wonPeriod' = [wonPeriod EXCEPT ![w] = IF won THEN requeues ELSE @]
            /\ attempted' = TRUE
            /\ wins' = IF won THEN wins + 1 ELSE wins
            /\ claimFault' = (claimFault \/ ~dbOk)
    /\ UNCHANGED <<error_message, analyze_features, analysis_summary, fileExt, fsVars,
                   snap, temp, conv,
                   found, tried, okSteps, failedStep, created, markLost, requeues,
                   resumeFrom, outsidePipeline>>

\* _get_audio_file (GridFS mode) and the needs_conversion decision
GetAudioFile(w) ==
    /\ pc[w] = "fetch"
    /\ nextFile <= MaxFiles
    /\ \E got \in BOOLEAN, dbOk \in BOOLEAN :
         IF got
         THEN /\ temp' = [temp EXCEPT ![w] = nextFile]
              /\ files' = files \cup {nextFile}
              /\ nextFile' = nextFile + 1
              /\ created' = [created EXCEPT ![w] = @ \cup {nextFile}]
              /\ pc' = [pc EXCEPT ![w] =
                          IF NeedsConversion(fileExt) THEN "s0_start" ELSE "s1_start"]
              /\ UNCHANGED <<current_step, analysis_status, error_message, result,
                             markLost>>
         ELSE /\ MarkError("no_audio", 0, dbOk)
              /\ markLost' = [markLost EXCEPT ![w] = @ \/ ~dbOk]
              /\ pc' = [pc EXCEPT ![w] = "done"]
              /\ result' = [result EXCEPT ![w] = "false"]
              /\ UNCHANGED <<temp, files, nextFile, created>>
    /\ UNCHANGED <<analyze_features, analysis_summary, fileExt, snap, conv, found,
                   claimed, tried, okSteps,
                   failedStep, wonPeriod, requeues, resumeFrom, attempted, wins, claimFault,
                   outsidePipeline>>

\* _execute_stepN, first statement: update_record_step(uuid, N, 'processing')
StepStart(w, n, from, to) ==
    /\ pc[w] = from
    /\ \E dbOk \in BOOLEAN : UpdateRecordStep(n, "processing", "", dbOk)
    /\ tried' = [tried EXCEPT ![w] = Append(@, n)]
    /\ pc' = [pc EXCEPT ![w] = to]
    /\ UNCHANGED <<analyze_features, analysis_summary, fileExt, fsVars, snap, temp, conv,
                   found, result,
                   claimed, okSteps, failedStep, created, wonPeriod, markLost, requeues,
                   resumeFrom,
                   attempted, wins, claimFault, outsidePipeline>>

\* The tail of _execute_stepN once the processor has returned `out`:
\* persist the output, or _mark_error(step = N); then process_record's test
\* of the step's return value.
StepFinish(w, n, out, path, dbOk) ==
    LET ok == out = "ok" /\ SaveOk(dbOk)
        nxt == AfterStep(n, ok)
    IN /\ IF out = "ok"
          THEN /\ SaveStep(n, path, dbOk)
               /\ UNCHANGED markLost
          ELSE /\ MarkError(out, n, dbOk)
               /\ markLost' = [markLost EXCEPT ![w] = @ \/ ~dbOk]
               /\ UNCHANGED <<analyze_features, analysis_summary>>
       /\ okSteps' = [okSteps EXCEPT ![w] = IF ok THEN @ \cup {n} ELSE @]
       /\ failedStep' = [failedStep EXCEPT ![w] = IF ok THEN @ ELSE n]
       /\ pc' = [pc EXCEPT ![w] = nxt]
       /\ result' = [result EXCEPT ![w] =
                        IF ~ok THEN "false" ELSE IF n = 3 THEN "true" ELSE @]

ExecuteStep0Start(w) == StepStart(w, 0, "s0_start", "s0_run")

\* convert_to_wav, get_conversion_info, save_conversion_results
ExecuteStep0(w) ==
    /\ pc[w] = "s0_run"
    /\ nextFile <= MaxFiles
    /\ \E out \in {"ok", "noinfo", "convert_failed"}, dbOk \in BOOLEAN :
         IF out = "convert_failed"
         THEN /\ StepFinish(w, 0, out, NoFile, dbOk)
              /\ UNCHANGED <<fsVars, created>>
         ELSE /\ files' = files \cup {nextFile}
              /\ nextFile' = nextFile + 1
              /\ created' = [created EXCEPT ![w] = @ \cup {nextFile}]
              /\ StepFinish(w, 0, "ok", IF out = "ok" THEN nextFile ELSE NoFile, dbOk)
    /\ UNCHANGED <<fileExt, snap, temp, conv, found, claimed, tried, wonPeriod, requeues,
                   resumeFrom, attempted, wins, claimFault, outsidePipeline>>

\* process_record lines 94-103: re-read the record and take
\* analyze_features[0].processor_metadata.converted_path
ReadConvertedPath(w) ==
    /\ pc[w] = "s0_read"
    /\ \E dbOk \in BOOLEAN :
         IF ~dbOk
         THEN /\ pc' = [pc EXCEPT ![w] = "mark_exception"]
              /\ UNCHANGED conv
         ELSE LET path == analyze_features.steps[1].converted_path
              IN /\ conv' = [conv EXCEPT ![w] = path]
                 /\ pc' = [pc EXCEPT ![w] =
                             IF path = NoFile \/ path \notin files
                             THEN "mark_missing" ELSE "s1_start"]
    /\ UNCHANGED <<docVars, fsVars, snap, temp, found, result, claimed, histVars,
                   outsidePipeline>>

\* _mark_error with the default step (0), then return False: the converted
\* file is missing (line 99), or the outer except of process_record (line 144)
MarkAndReturn(w) ==
    /\ pc[w] \in {"mark_missing", "mark_exception"}
    /\ \E dbOk \in BOOLEAN :
         /\ MarkError(IF pc[w] = "mark_missing" THEN "converted_missing" ELSE "exception",
                      0, dbOk)
         /\ markLost' = [markLost EXCEPT ![w] = @ \/ ~dbOk]
    /\ pc' = [pc EXCEPT ![w] = "done"]
    /\ result' = [result EXCEPT ![w] = "false"]
    /\ UNCHANGED <<analyze_features, analysis_summary, fileExt, fsVars, snap, temp, conv,
                   found, claimed,
                   tried, okSteps, failedStep, created, wonPeriod, requeues, resumeFrom,
                   attempted, wins, claimFault, outsidePipeline>>

ExecuteStep1Start(w) == StepStart(w, 1, "s1_start", "s1_run")

\* slice_audio, save_slice_results
ExecuteStep1(w) ==
    /\ pc[w] = "s1_run"
    /\ \E out \in {"ok", "empty", "raised"}, dbOk \in BOOLEAN :
         StepFinish(w, 1, out, NoFile, dbOk)
    /\ UNCHANGED <<fileExt, fsVars, snap, temp, conv, found, claimed, tried, created,
                   wonPeriod, requeues, resumeFrom, attempted, wins, claimFault,
                   outsidePipeline>>

\* _execute_step2 / _execute_step3: get_record_by_uuid and the scan for the
\* entry whose features_step is n - 1; a missing record or entry returns
\* False without _mark_error.
StepLookup(w, n, from, to) ==
    /\ pc[w] = from
    /\ \E dbOk \in BOOLEAN :
         LET i == IF dbOk /\ analyze_features.kind = "list"
                  THEN FindStep(analyze_features.steps, n - 1) ELSE 0
         IN /\ found' = [found EXCEPT ![w] =
                            IF i # 0 THEN i ELSE IF dbOk THEN LookupMiss ELSE LookupFault]
            /\ pc' = [pc EXCEPT ![w] = IF i # 0 THEN to ELSE AfterStep(n, FALSE)]
            /\ failedStep' = [failedStep EXCEPT ![w] = IF i # 0 THEN @ ELSE n]
            /\ result' = [result EXCEPT ![w] = IF i # 0 THEN @ ELSE "false"]
    /\ UNCHANGED <<docVars, fsVars, snap, temp, conv, claimed, tried, okSteps, created,
                   wonPeriod, markLost, requeues, resumeFrom, attempted, wins, claimFault,
                   outsidePipeline>>

ExecuteStep2Start(w) == StepStart(w, 2, "s2_start", "s2_read")
ExecuteStep2Lookup(w) == StepLookup(w, 2, "s2_read", "s2_run")

\* extract_features, save_leaf_features
ExecuteStep2(w) ==
    /\ pc[w] = "s2_run"
    /\ \E out \in {"ok", "empty", "raised"}, dbOk \in BOOLEAN :
         StepFinish(w, 2, out, NoFile, dbOk)
    /\ UNCHANGED <<fileExt, fsVars, snap, temp, conv, found, claimed, tried, created,
                   wonPeriod, requeues, resumeFrom, attempted, wins, claimFault,
                   outsidePipeline>>

ExecuteStep3Start(w) == StepStart(w, 3, "s3_start", "s3_read")
ExecuteStep3Lookup(w) == StepLookup(w, 3, "s3_read", "s3_run")

\* classify, save_classification_results
ExecuteStep3(w) ==
    /\ pc[w] = "s3_run"
    /\ \E out \in {"ok", "raised"}, dbOk \in BOOLEAN :
         StepFinish(w, 3, out, NoFile, dbOk)
    /\ UNCHANGED <<fileExt, fsVars, snap, temp, conv, found, claimed, tried, created,
                   wonPeriod, requeues, resumeFrom, attempted, wins, claimFault,
                   outsidePipeline>>

\* The finally block of process_record (lines 128-139)
Cleanup(w) ==
    /\ pc[w] = "cleanup"
    /\ files' = (files \ {temp[w]}) \
                  (IF conv[w] # NoFile /\ conv[w] # temp[w] THEN {conv[w]} ELSE {})
    /\ pc' = [pc EXCEPT ![w] = "done"]
    /\ UNCHANGED <<docVars, nextFile, snap, temp, conv, found, result, claimed, histVars,
                   outsidePipeline>>

\* process_record has returned; the worker takes its next task
Return(w) ==
    /\ pc[w] = "done"
    /\ pc' = [pc EXCEPT ![w] = "idle"]
    /\ temp' = [temp EXCEPT ![w] = NoFile]
    /\ conv' = [conv EXCEPT ![w] = NoFile]
    /\ found' = [found EXCEPT ![w] = 0]
    /\ result' = [result EXCEPT ![w] = "none"]
    /\ claimed' = [claimed EXCEPT ![w] = "none"]
    /\ tried' = [tried EXCEPT ![w] = <<>>]
    /\ okSteps' = [okSteps EXCEPT ![w] = {}]
    /\ failedStep' = [failedStep EXCEPT ![w] = -1]
    /\ created' = [created EXCEPT ![w] = {}]
    /\ wonPeriod' = [wonPeriod EXCEPT ![w] = -1]
    /\ markLost' = [markLost EXCEPT ![w] = FALSE]
    /\ UNCHANGED <<docVars, fsVars, snap, requeues, resumeFrom, attempted, wins, claimFault,
                   outsidePipeline>>

\* An operator re-queues a recording that is in error: the only state that
\* try_claim_record accepts and find_pending_records returns.
Requeue ==
    /\ analysis_status = "error"
    /\ requeues < MaxRequeue
    /\ current_step' = 0
    /\ analysis_status' = "pending"
    /\ requeues' = requeues + 1
    /\ resumeFrom' = current_step
    /\ attempted' = FALSE
    /\ wins' = 0
    /\ claimFault' = FALSE
    /\ UNCHANGED <<error_message, analyze_features, analysis_summary, fileExt, fsVars,
                   callVars, tried,
                   okSteps, failedStep, created, wonPeriod, markLost, outsidePipeline>>

(***************************************************************************)
(* The multi-run container: MongoDBHandler.ensure_analysis_container and   *)
(* start_analysis_run, and the batch domain-conversion job.  The           *)
(* timestamps of a container and of a run are left out.                    *)
(***************************************************************************)

NumActors == 2
MaxRuns == 3
MaxLegacyLen == 2
MaxApply == 3

Actors == 1..NumActors
NoId == 0            \* None as an analysis_id
LegacyId == -1       \* "legacy-<AnalyzeUUID>"
NoIndex == 0         \* None as latest_summary_index
InputStep == 2       \* DEFAULT_INPUT_STEP
OutputStep == 6      \* DEFAULT_OUTPUT_STEP

pipeCallVars == <<fsVars, callVars, histVars, laterVars>>

\* build_analysis_container()
BuildAnalysisContainer ==
    [kind |-> "container", active_analysis_id |-> NoId, latest_analysis_id |-> NoId,
     latest_summary_index |-> NoIndex, total_runs |-> 0, runs |-> <<>>]

RunDoc(id, idx, summary, source, steps) ==
    [analysis_id |-> id, run_index |-> idx, analysis_summary |-> summary,
     source |-> source, steps |-> steps]

\* record.get('analysis_summary', {}) or {}
SummaryOf(s) == IF s = "none" THEN "empty" ELSE "summary"

\* _wrap_legacy_analyze_features(record, legacy_value)
WrapLegacyAnalyzeFeatures(rec) ==
    IF rec.analyze_features.kind = "list" /\ rec.analyze_features.steps # <<>>
    THEN [BuildAnalysisContainer EXCEPT
            !.runs = <<RunDoc(LegacyId, 1, SummaryOf(rec.analysis_summary), "legacy",
                              rec.analyze_features.steps)>>,
            !.latest_analysis_id = LegacyId,
            !.latest_summary_index = 1,
            !.total_runs = 1]
    ELSE BuildAnalysisContainer

\* _merge_container_defaults(container): the containers the code writes hold
\* every key and every run a run_index, so only total_runs and
\* latest_summary_index can be filled in.
MergeContainerDefaults(c) ==
    LET withSummary == {i \in 1..Len(c.runs) : c.runs[i].analysis_summary = "summary"}
        last == CHOOSE i \in withSummary : \A j \in withSummary : j <= i
    IN [c EXCEPT
          !.total_runs = IF @ = 0 /\ c.runs # <<>> THEN Len(c.runs) ELSE @,
          !.latest_summary_index =
              IF @ = NoIndex /\ withSummary # {} THEN c.runs[last].run_index ELSE @]

\* ensure_analysis_container of the handler: the container it returns and
\* whether it writes it back (needs_update).
EnsureAlwaysWrapping(rec) ==
    [container |-> WrapLegacyAnalyzeFeatures(rec), write |-> TRUE]
EnsureAnalysisContainer(rec) ==
    IF rec.analyze_features.kind = "container"
    THEN [container |-> MergeContainerDefaults(rec.analyze_features),
          write |-> MergeContainerDefaults(rec.analyze_features) # rec.analyze_features]
    ELSE [container |-> WrapLegacyAnalyzeFeatures(rec), write |-> TRUE]

\* ensure_analysis_container of the batch job: always writes
BatchEnsureAnalysisContainer(rec) ==
    IF rec.analyze_features.kind = "container"
    THEN [container |-> rec.analyze_features, write |-> TRUE]
    ELSE IF rec.analyze_features.steps # <<>>
    THEN [container |->
            [BuildAnalysisContainer EXCEPT
               !.runs = <<RunDoc(LegacyId, 1, SummaryOf(rec.analysis_summary), "legacy",
                                 rec.analyze_features.steps)>>,
               !.latest_analysis_id = LegacyId,
               !.latest_summary_index = 1,
               !.total_runs = 1],
          write |-> TRUE]
    ELSE [container |-> BuildAnalysisContainer, write |-> TRUE]

\* The update that persists an upgraded container: $set analyze_features and,
\* when the record read carried an analysis_summary, $unset it.
WriteContainer(e, rec) ==
    IF e.write
    THEN /\ analyze_features' = e.container
         /\ analysis_summary' = IF rec.analysis_summary # "none" THEN "none"
                                ELSE analysis_summary
    ELSE UNCHANGED <<analyze_features, analysis_summary>>

\* extract_step_from_run(run_doc, step)
HasStep(run, n) == \E i \in 1..Len(run.steps) : run.steps[i].features_step = n

\* select_analysis_run(record, None): the run latest_summary_index names,
\* else the last run; 0 when there is no run.
SelectAnalysisRun(c) ==
    IF c.runs = <<>> THEN 0
    ELSE IF /\ c.latest_summary_index # NoIndex
            /\ \E i \in 1..Len(c.runs) : c.runs[i].run_index = c.latest_summary_index
    THEN CHOOSE i \in 1..Len(c.runs) :
            /\ c.runs[i].run_index = c.latest_summary_index
            /\ \A j \in 1..(i - 1) : c.runs[j].run_index # c.latest_summary_index
    ELSE Len(c.runs)

\* has_completed_step(container, step)
HasCompletedStep(c, n) == \E i \in 1..Len(c.runs) : HasStep(c.runs[i], n)

\* build_query: the job visits a document that holds a completed input step
MatchesBatchQuery(af) ==
    IF af.kind = "list"
    THEN \E i \in 1..Len(af.steps) : af.steps[i].features_step = InputStep
    ELSE HasCompletedStep(af, InputStep)

\* run_index of start_analysis_run: len(existing_runs) + 1
StartRunIndex(runs) == Len(runs) + 1

\* run_index of append_conversion_run: max(existing run_index) + 1, or
\* len(existing_runs) + 1 when no run carries one
ConversionRunIndex(runs) ==
    LET indices == {runs[i].run_index : i \in 1..Len(runs)} \ {0}
    IN IF indices # {}
       THEN (CHOOSE m \in indices : \A k \in indices : k <= m) + 1
       ELSE Len(runs) + 1

\* The $push/$set of start_analysis_run (modified_count > 0)
PushAnalysisRun(idx) ==
    /\ analyze_features' =
          [analyze_features EXCEPT
             !.runs = Append(@, RunDoc(nextId, idx, "empty", "analysis", <<>>)),
             !.active_analysis_id = nextId,
             !.latest_analysis_id = nextId,
             !.total_runs = idx,
             !.latest_summary_index = NoIndex]
    /\ analysis_status' = "processing"
    /\ current_step' = 0
    /\ nextId' = nextId + 1

\* The $push/$set of append_conversion_run
PushConversionRun(idx) ==
    /\ analyze_features' =
          [analyze_features EXCEPT
             !.runs = Append(@, RunDoc(nextId, idx, "empty", "conversion",
                                       <<StepDoc(OutputStep, "converted", NoFile)>>)),
             !.active_analysis_id = NoId,
             !.latest_analysis_id = nextId,
             !.total_runs = idx]
    /\ analysis_status' = "completed"
    /\ current_step' = OutputStep
    /\ nextId' = nextId + 1

\* start_analysis_run, line 200: get_record_by_uuid
StartRunRead(a) ==
    /\ rpc[a] = "idle"
    /\ nextId <= MaxRuns
    /\ rpc' = [rpc EXCEPT ![a] = "s_ensure"]
    /\ rsnap' = [rsnap EXCEPT ![a] = [analyze_features |-> analyze_features,
                                      analysis_summary |-> analysis_summary]]
    /\ UNCHANGED <<docVars, rflag, ridx, nextId, returned, original, pipeCallVars,
                   handlerVars>>

\* start_analysis_run, lines 206-212: ensure_analysis_container(uuid, record)
\* and run_index = len(existing_runs) + 1
StartRunEnsure(a) ==
    /\ rpc[a] = "s_ensure"
    /\ LET e == EnsureAnalysisContainer(rsnap[a])
       IN /\ WriteContainer(e, rsnap[a])
          /\ ridx' = [ridx EXCEPT ![a] = StartRunIndex(e.container.runs)]
    /\ rpc' = [rpc EXCEPT ![a] = "s_push"]
    /\ UNCHANGED <<current_step, analysis_status, error_message, fileExt, rsnap, rflag,
                   nextId, returned, original, pipeCallVars, handlerVars>>

\* start_analysis_run, lines 228-249: the update that appends the run
StartRunPush(a) ==
    /\ rpc[a] = "s_push"
    /\ nextId <= MaxRuns
    /\ analyze_features.kind = "container"
    /\ PushAnalysisRun(ridx[a])
    /\ rpc' = [rpc EXCEPT ![a] = "idle"]
    /\ UNCHANGED <<error_message, analysis_summary, fileExt, rsnap, rflag, ridx, returned,
                   original, pipeCallVars, handlerVars>>

\* The batch job's main loop takes a document the query matched
BatchRead(a) ==
    /\ rpc[a] = "idle"
    /\ nextId <= MaxRuns
    /\ MatchesBatchQuery(analyze_features)
    /\ rpc' = [rpc EXCEPT ![a] = "b_ensure"]
    /\ rsnap' = [rsnap EXCEPT ![a] = [analyze_features |-> analyze_features,
                                      analysis_summary |-> analysis_summary]]
    /\ \E overwrite \in BOOLEAN : rflag' = [rflag EXCEPT ![a] = overwrite]
    /\ UNCHANGED <<docVars, ridx, nextId, returned, original, pipeCallVars, handlerVars>>

\* main, lines 429-446: ensure_analysis_container, then the run and step
\* selection that decides whether the document is converted or skipped
BatchEnsure(a) ==
    /\ rpc[a] = "b_ensure"
    /\ LET e == BatchEnsureAnalysisContainer(rsnap[a])
           c == e.container
           sel == SelectAnalysisRun(c)
           skip == \/ sel = 0
                   \/ ~HasStep(c.runs[sel], InputStep)
                   \/ (HasCompletedStep(c, OutputStep) /\ ~rflag[a])
       IN /\ WriteContainer(e, rsnap[a])
          /\ rpc' = [rpc EXCEPT ![a] =
                       IF skip THEN "idle" ELSE IF rflag[a] THEN "b_pull" ELSE "b_find"]
    /\ UNCHANGED <<current_step, analysis_status, error_message, fileExt, rsnap, rflag,
                   ridx, nextId, returned, original, pipeCallVars, handlerVars>>

\* remove_previous_conversion_runs: $pull the runs this job wrote
RemovePreviousConversionRuns(a) ==
    /\ rpc[a] = "b_pull"
    /\ analyze_features.kind = "container"
    /\ analyze_features' =
          [analyze_features EXCEPT
             !.runs = SelectSeq(@, LAMBDA r : r.source # "conversion")]
    /\ rpc' = [rpc EXCEPT ![a] = "b_find"]
    /\ UNCHANGED <<current_step, analysis_status, error_message, analysis_summary, fileExt,
                   rsnap, rflag, ridx, nextId, returned, original, pipeCallVars,
                   handlerVars>>

\* append_conversion_run, lines 184-193: find_one and the run_index
AppendConversionFind(a) ==
    /\ rpc[a] = "b_find"
    /\ analyze_features.kind = "container"
    /\ ridx' = [ridx EXCEPT ![a] = ConversionRunIndex(analyze_features.runs)]
    /\ rpc' = [rpc EXCEPT ![a] = "b_push"]
    /\ UNCHANGED <<docVars, rsnap, rflag, nextId, returned, original, pipeCallVars,
                   handlerVars>>

\* append_conversion_run, lines 218-233: the update that appends the run
AppendConversionPush(a) ==
    /\ rpc[a] = "b_push"
    /\ nextId <= MaxRuns
    /\ analyze_features.kind = "container"
    /\ PushConversionRun(ridx[a])
    /\ rpc' = [rpc EXCEPT ![a] = "idle"]
    /\ UNCHANGED <<error_message, analysis_summary, fileExt, rsnap, rflag, ridx, returned,
                   original, pipeCallVars, handlerVars>>

\* The operation ends where it is: a store call raises (neither
\* start_analysis_run nor the batch job catches), or the batch job's
\* conversion fails or runs with --dry-run and goes on to the next document.
OperationEndsEarly(a) ==
    /\ rpc[a] # "idle"
    /\ rpc' = [rpc EXCEPT ![a] = "idle"]
    /\ UNCHANGED <<docVars, rsnap, rflag, ridx, nextId, returned, original, pipeCallVars,
                   handlerVars>>

\* One application of the legacy-to-multi-run upgrade to the stored record,
\* by the handler or by the batch job.
Upgrade(byBatch) ==
    /\ Len(returned) < MaxApply
    /\ LET rec == [analyze_features |-> analyze_features,
                   analysis_summary |-> analysis_summary]
           e == IF byBatch THEN BatchEnsureAnalysisContainer(rec)
                ELSE EnsureAnalysisContainer(rec)
       IN /\ WriteContainer(e, rec)
          /\ returned' = Append(returned, e.container)
    /\ UNCHANGED <<current_step, analysis_status, error_message, fileExt, rpc, rsnap, rflag,
                   ridx, nextId, original, pipeCallVars, handlerVars>>

UpgradeByHandler == Upgrade(FALSE)
UpgradeByBatchJob == Upgrade(TRUE)

(***************************************************************************)
(* The operations of MongoDBHandler as a caller sees them, after _connect  *)
(* has succeeded.  known: the AnalyzeUUID passed names the stored record.  *)
(* dbOk = FALSE: the driver call of the operation raises.  hout is what    *)
(* the caller gets: a returned value, or "raised" for an exception.        *)
(***************************************************************************)

MaxSteps == 2

\* try: ... return value / except Exception: log; return failValue
ExceptReraises(raisedInside, failValue, value) ==
    IF raisedInside THEN "raised" ELSE value
ExceptReturns(raisedInside, failValue, value) ==
    IF raisedInside THEN failValue ELSE value

\* A driver call outside every try block, and an except block that re-raises
Propagates(raisedInside, value) == IF raisedInside THEN "raised" ELSE value

Truth(b) == IF b THEN "true" ELSE "false"

\* The save operation of step n
SaveOperation(n) ==
    CASE n = 0 -> "save_conversion_results"
      [] n = 1 -> "save_slice_results"
      [] n = 2 -> "save_leaf_features"
      [] OTHER -> "save_classification_results"

Called(op, out, dbOk) ==
    /\ hop' = op
    /\ hout' = out
    /\ hfault' = ~dbOk

\* try_claim_record(analyze_uuid)
CallTryClaimRecord ==
    \E known \in BOOLEAN, dbOk \in BOOLEAN :
       LET won == dbOk /\ known /\ ClaimFilter(current_step, analysis_status)
       IN /\ IF won
             THEN current_step' = 1 /\ analysis_status' = "processing"
             ELSE UNCHANGED <<current_step, analysis_status>>
          /\ Called("try_claim_record", ExceptReturns(~dbOk, "false", Truth(won)), dbOk)
          /\ UNCHANGED <<error_message, analyze_features, analysis_summary, fileExt,
                         runVars, pipeCallVars>>

\* find_pending_records(limit)
CallFindPendingRecords ==
    \E dbOk \in BOOLEAN :
       /\ Called("find_pending_records",
                 ExceptReturns(~dbOk, "empty",
                               IF PendingQuery(current_step, analysis_status)
                               THEN "records" ELSE "empty"),
                 dbOk)
       /\ UNCHANGED <<docVars, runVars, pipeCallVars>>

\* update_record_step(analyze_uuid, step, status, error_message)
CallUpdateRecordStep ==
    \E known \in BOOLEAN, dbOk \in BOOLEAN, step \in 0..3,
       call \in {<<"processing", "">>, <<"error", "exception">>} :
       /\ UpdateRecordStep(step, call[1], call[2], dbOk /\ known)
       /\ Called("update_record_step", ExceptReturns(~dbOk, "false", Truth(known)), dbOk)
       /\ UNCHANGED <<analyze_features, analysis_summary, fileExt, runVars, pipeCallVars>>

\* save_conversion_results, save_slice_results, save_leaf_features and
\* save_classification_results, without analysis_id: a $push to an
\* analyze_features that is not an array makes update_one raise.
CallSaveResults ==
    \E known \in BOOLEAN, dbOk \in BOOLEAN, n \in 0..3 :
       /\ analyze_features.kind = "list" => Len(analyze_features.steps) < MaxSteps
       /\ SaveStep(n, NoFile, dbOk /\ known)
       /\ Called(SaveOperation(n),
                 ExceptReturns(~SaveOk(dbOk), "false", Truth(known)), dbOk)
       /\ UNCHANGED <<fileExt, runVars, pipeCallVars>>

\* get_record_by_uuid(analyze_uuid)
CallGetRecordByUuid ==
    \E known \in BOOLEAN, dbOk \in BOOLEAN :
       /\ Called("get_record_by_uuid",
                 ExceptReturns(~dbOk, "none", IF known THEN "record" ELSE "none"), dbOk)
       /\ UNCHANGED <<docVars, runVars, pipeCallVars>>

\* ensure_analysis_container(analyze_uuid): the record is read with
\* get_record_by_uuid (readOk), a missing record raises ValueError, and the
\* update_one that writes the container back (dbOk) is in no try block.
CallEnsureAnalysisContainer ==
    \E known \in BOOLEAN, readOk \in BOOLEAN, dbOk \in BOOLEAN :
       LET rec == [analyze_features |-> analyze_features,
                   analysis_summary |-> analysis_summary]
           e == EnsureAnalysisContainer(rec)
       IN IF ~(known /\ readOk)
          THEN /\ Called("ensure_analysis_container", "raised", readOk)
               /\ UNCHANGED <<docVars, runVars, pipeCallVars>>
          ELSE /\ IF dbOk THEN WriteContainer(e, rec)
                  ELSE UNCHANGED <<analyze_features, analysis_summary>>
               /\ Called("ensure_analysis_container",
                         Propagates(e.write /\ ~dbOk, "container"), ~e.write \/ dbOk)
               /\ UNCHANGED <<current_step, analysis_status, error_message, fileExt,
                              runVars, pipeCallVars>>

\* start_analysis_run(analyze_uuid): get_record_by_uuid (readOk), None for
\* a missing record, then ensure_analysis_container (ensureOk) and the
\* update_one that appends the run (dbOk), neither in a try block.
CallStartAnalysisRun ==
    \E known \in BOOLEAN, readOk \in BOOLEAN, ensureOk \in BOOLEAN, dbOk \in BOOLEAN :
       LET rec == [analyze_features |-> analyze_features,
                   analysis_summary |-> analysis_summary]
           e == EnsureAnalysisContainer(rec)
           ensured == ~e.write \/ ensureOk
       IN /\ nextId <= MaxRuns
          /\ IF ~(known /\ readOk)
             THEN /\ Called("start_analysis_run", "none", readOk)
                  /\ UNCHANGED <<docVars, nextId>>
             ELSE IF ~ensured
             THEN /\ Called("start_analysis_run", "raised", FALSE)
                  /\ UNCHANGED <<docVars, nextId>>
             ELSE IF ~dbOk
             THEN /\ WriteContainer(e, rec)
                  /\ Called("start_analysis_run", "raised", FALSE)
                  /\ UNCHANGED <<current_step, analysis_status, error_message, fileExt,
                                 nextId>>
             ELSE /\ analyze_features' =
                        [e.container EXCEPT
                           !.runs = Append(@, RunDoc(nextId, StartRunIndex(e.container.runs),
                                                     "empty", "analysis", <<>>)),
                           !.active_analysis_id = nextId,
                           !.latest_analysis_id = nextId,
                           !.total_runs = StartRunIndex(e.container.runs),
                           !.latest_summary_index = NoIndex]
                  /\ analysis_summary' = "none"
                  /\ analysis_status' = "processing"
                  /\ current_step' = 0
                  /\ nextId' = nextId + 1
                  /\ Called("start_analysis_run", "run", TRUE)
                  /\ UNCHANGED <<error_message, fileExt>>
          /\ UNCHANGED <<rpc, rsnap, rflag, ridx, returned, original, pipeCallVars>>

\* watch_changes(): collection.watch raising is logged and re-raised
CallWatchChanges ==
    \E dbOk \in BOOLEAN :
       /\ Called("watch_changes", Propagates(~dbOk, "stream"), dbOk)
       /\ UNCHANGED <<docVars, runVars, pipeCallVars>>

\* close(): mongo_client.close() in no try block
CallClose ==
    \E dbOk \in BOOLEAN :
       /\ Called("close", Propagates(~dbOk, "closed"), dbOk)
       /\ UNCHANGED <<docVars, runVars, pipeCallVars>>

(***************************************************************************)
(* The other services at rest.                                             *)
(***************************************************************************)

ConfigIds == {"cfgA", "cfgB"}
NoRecord == [id |-> 0, valid |-> FALSE, matching |-> <<>>]

InitSchedIdle ==
    /\ schedPc = "idle"
    /\ schedRecord = NoRecord
    /\ schedRule = 1
    /\ schedAct = 1
    /\ configs = [c \in ConfigIds |-> "missing"]
    /\ sent = <<>>
    /\ seenRecords = <<>>

NumTasks == 2
Tasks == 1..NumTasks

\* The worker after initialize() and start(): heartbeat thread started, the
\* consumer consuming, no task delivered yet
InitWorkerIdle ==
    /\ isRunning = TRUE
    /\ currentTaskCount = 0
    /\ hbTasks = 0
    /\ tpc = [t \in Tasks |-> "idle"]
    /\ tInstance = [t \in Tasks |-> ""]
    /\ tHandler = [t \in Tasks |-> "none"]
    /\ loadedFrom = [t \in Tasks |-> "none"]
    /\ pipeStore = [t \in Tasks |-> "none"]
    /\ stopPc = "running"
    /\ consumerOn = TRUE
    /\ heartbeatOn = TRUE
    /\ stopLog = <<>>
    /\ startedLate = FALSE
    /\ deliveries = 0

NumDevices == 2
NumClients == 2
MaxCheckers == 2
MaxSchedules == 2
MaxTime == 2
Devices == 1..NumDevices
Clients == 1..NumClients
Checkers == 1..MaxCheckers
ScheduleIds == 1..MaxSchedules
\* count = None: the schedule repeats without limit
NoCount == -1
\* execution_locks has no entry for the device yet
NoLock == -1
NoSchedule == [interval |-> 0, count |-> NoCount, current_count |-> 0,
               next_recording_time |-> 0]

\* The upload application after start-up: no client has connected, no
\* background task was started, no schedule exists
InitTickIdle ==
    /\ schedule_checker_running = FALSE
    /\ schedule_checker_lock = 0
    /\ connPc = [c \in Clients |-> "idle"]
    /\ chkPc = [k \in Checkers |-> "unborn"]
    /\ chkTime = [k \in Checkers |-> 0]
    /\ chkList = [k \in Checkers |-> <<>>]
    /\ execution_locks = [d \in Devices |-> NoLock]
    /\ device_schedules = <<>>
    /\ schedObj = [i \in ScheduleIds |-> NoSchedule]
    /\ nextSchedule = 1
    /\ connected = {}
    /\ now = 0
    /\ recordsSent = [i \in ScheduleIds |-> 0]
    /\ firedDue = {}
    /\ doubleFired = FALSE
    /\ removedOnCompletion = {}

NumNodes == 2
NodeIds == 1..NumNodes

\* The node monitor before its first tick
InitMonIdle ==
    /\ previous_node_status = [n \in NodeIds |-> "none"]
    /\ tickListing = [n \in NodeIds |-> "absent"]
    /\ priorListing = [n \in NodeIds |-> "absent"]
    /\ notified = [n \in NodeIds |-> <<0, 0>>]
    /\ statsSent = 0

NumRecs == 3
RecIds == 1..NumRecs

\* No bulk operation was started; the configuration is the one shipped in
\* batch_delete_config.py and the collection is empty
InitDelIdle ==
    /\ opKind = "batch_delete"
    /\ maxDeleteCount = 0
    /\ requireConfirmation = TRUE
    /\ backupBeforeDelete = TRUE
    /\ softDelete = FALSE
    /\ deleteGridfs = TRUE
    /\ selected = {}
    /\ dStore = {}
    /\ dFlagged = {}
    /\ dBlobs = {}
    /\ dpc = "start"
    /\ countAtCheck = 0
    /\ promptShown = FALSE
    /\ answer = "none"
    /\ backupDone = FALSE
    /\ backupSet = {}
    /\ deletedByOp = {}
    /\ flaggedByOp = {}
    /\ blobsDeletedByOp = {}

NumInstances == 2
InstanceIds == 1..NumInstances

\* The scheduler was constructed and not started: no watcher thread exists
InitWatchIdle ==
    /\ schedRunning = FALSE
    /\ wPc = [i \in InstanceIds |-> "unstarted"]
    /\ retry_count = [i \in InstanceIds |-> 0]
    /\ lastDelay = [i \in InstanceIds |-> 0]
    /\ gaveUp = [i \in InstanceIds |-> FALSE]
    /\ triedAfterGiveUp = [i \in InstanceIds |-> FALSE]
    /\ restarted = [i \in InstanceIds |-> FALSE]
    /\ supervised = FALSE

NumUploads == 2
UploadIds == 1..NumUploads

\* No polling watcher runs and the collection holds no recording
InitPollIdle ==
    /\ pollPc = "idle"
    /\ pollClock = 0
    /\ last_check_time = 0
    /\ upload_time = [u \in UploadIds |-> 0]
    /\ uploadType = [u \in UploadIds |-> "none"]
    /\ duringWatch = {}
    /\ pollBatch = {}
    /\ dispatched = [u \in UploadIds |-> 0]

\* No worker was started and the nodes_status collection is empty
InitRegIdle ==
    /\ nodeDoc = [n \in NodeIds |-> FALSE]
    /\ beatAge = [n \in NodeIds |-> 0]
    /\ workerUp = [n \in NodeIds |-> FALSE]
    /\ expiredRunning = [n \in NodeIds |-> FALSE]
    /\ beatAfterExpiry = [n \in NodeIds |-> FALSE]
    /\ lastAnswer = [n \in NodeIds |-> "none"]

Kinds == {"config", "rule", "instance", "node", "user"}

\* The control plane after init_admin: the admin user exists, nothing else
\* does, and no request was made
InitAccessIdle ==
    /\ cpPresent = [k \in Kinds |-> k = "user"]
    /\ cpEnabled = [k \in Kinds |-> TRUE]
    /\ lastWriter = [k \in Kinds |-> "none"]
    /\ readBy = {}

NumRuns == 2
RunIds == 1..NumRuns
UploadedFiles == {"batch", "web"}

\* No batch run was started, nothing was uploaded, no progress file exists
InitUploadIdle ==
    /\ upPc = [r \in RunIds |-> "idle"]
    /\ upAttempt = [r \in RunIds |-> 0]
    /\ upOutcome = [r \in RunIds |-> "none"]
    /\ upProgress = [r \in RunIds |-> FALSE]
    /\ progressFile = FALSE
    /\ upBlobs = [f \in UploadedFiles |-> {}]
    /\ upDocs = [f \in UploadedFiles |-> <<>>]
    /\ nextBlob = 1

NoSummary == [total_segments |-> -1]

\* No classification was summarised
InitSumIdle ==
    /\ sumInput = <<>>
    /\ sumOut = NoSummary

\* No label limit was applied
InitLimIdle ==
    /\ limFolders = <<>>
    /\ limLimit = 0
    /\ limKept = <<>>

InitMoreIdle ==
    /\ InitWatchIdle
    /\ InitPollIdle
    /\ InitRegIdle
    /\ InitAccessIdle
    /\ InitUploadIdle
    /\ InitSumIdle
    /\ InitLimIdle

InitRestIdle ==
    /\ InitTickIdle
    /\ InitMonIdle
    /\ InitDelIdle
    /\ InitMoreIdle

InitLaterIdle ==
    /\ InitSchedIdle
    /\ InitWorkerIdle
    /\ InitRestIdle

InitRunsIdle ==
    /\ rpc = [a \in Actors |-> "idle"]
    /\ rsnap = [a \in Actors |-> [analyze_features |-> LegacyList(<<>>),
                                  analysis_summary |-> "none"]]
    /\ rflag = [a \in Actors |-> FALSE]
    /\ ridx = [a \in Actors |-> 0]
    /\ nextId = 1
    /\ returned = <<>>

InitHandlerIdle ==
    /\ hop = "none"
    /\ hout = "none"
    /\ hfault = FALSE

InitPipelineIdle ==
    /\ files = {}
    /\ nextFile = 1
    /\ pc = [w \in Workers |-> "idle"]
    /\ snap = [w \in Workers |-> FALSE]
    /\ temp = [w \in Workers |-> NoFile]
    /\ conv = [w \in Workers |-> NoFile]
    /\ found = [w \in Workers |-> 0]
    /\ result = [w \in Workers |-> "none"]
    /\ claimed = [w \in Workers |-> "none"]
    /\ tried = [w \in Workers |-> <<>>]
    /\ okSteps = [w \in Workers |-> {}]
    /\ failedStep = [w \in Workers |-> -1]
    /\ created = [w \in Workers |-> {}]
    /\ wonPeriod = [w \in Workers |-> -1]
    /\ markLost = [w \in Workers |-> FALSE]
    /\ requeues = 0
    /\ resumeFrom = -1
    /\ attempted = FALSE
    /\ wins = 0
    /\ claimFault = FALSE

\* A document as the upload paths insert it
FreshDocument ==
    /\ current_step = 0
    /\ analysis_status = "absent"
    /\ error_message = ""
    /\ analyze_features = LegacyList(<<>>)
    /\ analysis_summary = "none"

\* A document the pipeline has completed (legacy array, Step 0 skipped)
CompletedDocument ==
    /\ current_step = 4
    /\ analysis_status = "completed"
    /\ error_message = ""
    /\ analyze_features = LegacyList(<<StepDoc(1, StepData(1), NoFile),
                                       StepDoc(2, StepData(2), NoFile),
                                       StepDoc(3, StepData(3), NoFile)>>)
    /\ analysis_summary = "summary"

Init ==
    /\ FreshDocument
    /\ fileExt \in {"csv", "wav"}
    /\ original = analyze_features
    /\ InitPipelineIdle
    /\ InitRunsIdle
    /\ InitHandlerIdle
    /\ InitLaterIdle

Next ==
    \/ \E w \in Workers : Load(w)
    \/ \E w \in Workers : TryClaimRecord(w)
    \/ \E w \in Workers : GetAudioFile(w)
    \/ \E w \in Workers : ExecuteStep0Start(w)
    \/ \E w \in Workers : ExecuteStep0(w)
    \/ \E w \in Workers : ReadConvertedPath(w)
    \/ \E w \in Workers : MarkAndReturn(w)
    \/ \E w \in Workers : ExecuteStep1Start(w)
    \/ \E w \in Workers : ExecuteStep1(w)
    \/ \E w \in Workers : ExecuteStep2Start(w)
    \/ \E w \in Workers : ExecuteStep2Lookup(w)
    \/ \E w \in Workers : ExecuteStep2(w)
    \/ \E w \in Workers : ExecuteStep3Start(w)
    \/ \E w \in Workers : ExecuteStep3Lookup(w)
    \/ \E w \in Workers : ExecuteStep3(w)
    \/ \E w \in Workers : Cleanup(w)
    \/ \E w \in Workers : Return(w)
    \/ Requeue

Spec == Init /\ [][Next]_vars

\* start_analysis_run and the batch job, interleaved on one document
InitRuns ==
    /\ (FreshDocument \/ CompletedDocument)
    /\ fileExt = "wav"
    /\ original = analyze_features
    /\ InitPipelineIdle
    /\ InitRunsIdle
    /\ InitHandlerIdle
    /\ InitLaterIdle

NextRuns ==
    \/ \E a \in Actors : StartRunRead(a)
    \/ \E a \in Actors : StartRunEnsure(a)
    \/ \E a \in Actors : StartRunPush(a)
    \/ \E a \in Actors : BatchRead(a)
    \/ \E a \in Actors : BatchEnsure(a)
    \/ \E a \in Actors : RemovePreviousConversionRuns(a)
    \/ \E a \in Actors : AppendConversionFind(a)
    \/ \E a \in Actors : AppendConversionPush(a)
    \/ \E a \in Actors : OperationEndsEarly(a)

SpecRuns == InitRuns /\ [][NextRuns]_vars

\* The upgrade applied repeatedly to a legacy-shaped record
RECURSIVE SeqsUpTo(_, _)
SeqsUpTo(S, n) ==
    IF n = 0 THEN {<<>>}
    ELSE SeqsUpTo(S, n - 1) \cup
         {Append(q, x) : q \in {r \in SeqsUpTo(S, n - 1) : Len(r) = n - 1}, x \in S}

LegacyArrays == SeqsUpTo({StepDoc(n, StepData(n), NoFile) : n \in 0..3}, MaxLegacyLen)

InitUpgrade ==
    /\ current_step \in {0, 4}
    /\ analysis_status = IF current_step = 4 THEN "completed" ELSE "absent"
    /\ error_message = ""
    /\ analyze_features \in {LegacyList(q) : q \in LegacyArrays}
    /\ analysis_summary \in {"none", "summary"}
    /\ fileExt = "wav"
    /\ original = analyze_features
    /\ InitPipelineIdle
    /\ InitRunsIdle
    /\ InitHandlerIdle
    /\ InitLaterIdle

NextUpgrade ==
    \/ UpgradeByHandler
    \/ UpgradeByBatchJob

SpecUpgrade == InitUpgrade /\ [][NextUpgrade]_vars

\* The handler's operations called in any order on one record
InitHandler ==
    /\ FreshDocument
    /\ fileExt = "wav"
    /\ original = analyze_features
    /\ InitPipelineIdle
    /\ InitRunsIdle
    /\ InitHandlerIdle
    /\ InitLaterIdle

NextHandler ==
    \/ CallTryClaimRecord
    \/ CallFindPendingRecords
    \/ CallUpdateRecordStep
    \/ CallSaveResults
    \/ CallGetRecordByUuid
    \/ CallEnsureAnalysisContainer
    \/ CallStartAnalysisRun
    \/ CallWatchChanges
    \/ CallClose

SpecHandler == InitHandler /\ [][NextHandler]_vars

(***************************************************************************)
(* The task scheduler: _process_new_record and _create_tasks_for_rule for  *)
(* each record a watcher observes.  The routing rules and the analysis     *)
(* configs are rows of the control-plane store.                            *)
(***************************************************************************)

MaxRecords == 2

\* Two routing rules: priority, and actions {analysis_method_id, config_id}
RoutingRules ==
    <<[rule_id |-> 1, priority |-> 10,
       actions |-> <<[analysis_method_id |-> "m1", config_id |-> "cfgA"],
                     [analysis_method_id |-> "m2", config_id |-> "cfgB"]>>],
      [rule_id |-> 2, priority |-> 5,
       actions |-> <<[analysis_method_id |-> "m1", config_id |-> "cfgB"]>>]>>

\* RoutingRule.find_matching_rules(info_features): the enabled rules whose
\* conditions hold, by descending priority
MatchingRuleLists == {<<>>, <<1>>, <<2>>, <<1, 2>>}

\* AnalysisConfig.get_by_id(config_id) and the tests of lines 235-241
ConfigUsableIfPresent(c) == c # "missing"
ConfigUsable(c) == c = "enabled"

\* task_data of _create_tasks_for_rule
TaskData(rec, rule, a, accepted) ==
    [analyze_uuid |-> rec.id,
     rule_id |-> rule.rule_id,
     action |-> a,
     analysis_method_id |-> rule.actions[a].analysis_method_id,
     config_id |-> rule.actions[a].config_id,
     priority |-> rule.priority,
     accepted |-> accepted]

\* A watcher hands a new record to _process_new_record: lines 185-202
ProcessNewRecord ==
    /\ schedPc = "idle"
    /\ Len(seenRecords) < MaxRecords
    /\ \E valid \in BOOLEAN, matching \in MatchingRuleLists :
         LET rec == [id |-> Len(seenRecords) + 1, valid |-> valid, matching |-> matching]
         IN /\ schedRecord' = rec
            /\ seenRecords' = Append(seenRecords, rec)
            /\ schedPc' = IF valid /\ matching # <<>> THEN "rules" ELSE "idle"
    /\ schedRule' = 1
    /\ schedAct' = 1
    /\ UNCHANGED <<configs, sent, exceptSched>>

\* One pass of the loop over rule.actions (lines 229-268); publish_task
\* returns accepted
CreateTaskForAction ==
    /\ schedPc = "rules"
    /\ LET rule == RoutingRules[schedRecord.matching[schedRule]]
           action == rule.actions[schedAct]
           lastAct == schedAct = Len(rule.actions)
           lastRule == schedRule = Len(schedRecord.matching)
       IN /\ IF ConfigUsable(configs[action.config_id])
             THEN \E accepted \in BOOLEAN :
                     sent' = Append(sent, TaskData(schedRecord, rule, schedAct, accepted))
             ELSE UNCHANGED sent
          /\ schedAct' = IF lastAct THEN 1 ELSE schedAct + 1
          /\ schedRule' = IF lastAct /\ ~lastRule THEN schedRule + 1 ELSE schedRule
          /\ schedPc' = IF lastAct /\ lastRule THEN "idle" ELSE "rules"
    /\ UNCHANGED <<schedRecord, configs, seenRecords, exceptSched>>

InitScheduler ==
    /\ FreshDocument
    /\ fileExt = "wav"
    /\ original = analyze_features
    /\ InitPipelineIdle
    /\ InitRunsIdle
    /\ InitHandlerIdle
    /\ schedPc = "idle"
    /\ schedRecord = NoRecord
    /\ schedRule = 1
    /\ schedAct = 1
    /\ configs \in [ConfigIds -> {"missing", "disabled", "enabled"}]
    /\ sent = <<>>
    /\ seenRecords = <<>>
    /\ InitWorkerIdle
    /\ InitRestIdle

NextScheduler ==
    \/ ProcessNewRecord
    \/ CreateTaskForAction

SpecScheduler == InitScheduler /\ [][NextScheduler]_vars

(***************************************************************************)
(* The distributed analysis worker: AnalysisServiceV2._process_task for    *)
(* each task the consumer delivers, and stop().  process_record is one     *)
(* step here; the consumer (RetryableConsumer) is not part of the sources  *)
(* and delivers tasks while it has not been stopped.                       *)
(***************************************************************************)

MaxDeliveries == 3

Instances == {"", "default", "siteB"}

\* The store a mongodb_instance selector names
StoreNamed(instance) == IF instance \in {"", "default"} THEN "default" ELSE instance

\* _get_mongodb_connection(instance_id): the store of the handler returned,
\* "none" for None.  fetched = state_client.get_mongodb_instance returned a
\* config (the cache mongodb_connections is never filled).
GetMongodbConnection(instance, fetched) ==
    IF instance = "default" \/ instance = "" THEN "default"
    ELSE IF fetched THEN "default"
    ELSE "none"

\* try / finally of _process_task: every return and every exception leaves
\* through the finally block
TaskExitSkippingEarlyReturns(outcome) ==
    IF outcome \in {"no_connection", "no_record"} THEN "idle" ELSE "finally"
TaskExit(outcome) == "finally"

\* _update_task_count(delta), under processing_lock
UpdateTaskCount(delta) ==
    /\ currentTaskCount' = currentTaskCount + delta
    /\ hbTasks' = currentTaskCount + delta

\* The consumer calls _process_task(task_data): lines 185-194
TaskBegin(t) ==
    /\ tpc[t] = "idle"
    /\ consumerOn
    /\ deliveries < MaxDeliveries
    /\ deliveries' = deliveries + 1
    /\ \E instance \in Instances : tInstance' = [tInstance EXCEPT ![t] = instance]
    /\ tpc' = [tpc EXCEPT ![t] = "count"]
    /\ tHandler' = [tHandler EXCEPT ![t] = "none"]
    /\ loadedFrom' = [loadedFrom EXCEPT ![t] = "none"]
    /\ pipeStore' = [pipeStore EXCEPT ![t] = "none"]
    /\ startedLate' = (startedLate \/ ~isRunning)
    /\ UNCHANGED <<isRunning, currentTaskCount, hbTasks, stopPc, consumerOn, heartbeatOn,
                   stopLog, exceptWorker>>

\* line 197: self._update_task_count(1)
TaskCount(t) ==
    /\ tpc[t] = "count"
    /\ UpdateTaskCount(1)
    /\ tpc' = [tpc EXCEPT ![t] = "connect"]
    /\ UNCHANGED <<isRunning, tInstance, tHandler, loadedFrom, pipeStore, stopPc, consumerOn,
                   heartbeatOn, stopLog, startedLate, deliveries, exceptWorker>>

\* lines 199-203: _get_mongodb_connection(mongodb_instance)
TaskConnect(t) ==
    /\ tpc[t] = "connect"
    /\ \E fetched \in BOOLEAN :
         LET h == GetMongodbConnection(tInstance[t], fetched)
         IN /\ tHandler' = [tHandler EXCEPT ![t] = h]
            /\ tpc' = [tpc EXCEPT ![t] =
                         IF h = "none" THEN TaskExit("no_connection") ELSE "load"]
    /\ UNCHANGED <<isRunning, currentTaskCount, hbTasks, tInstance, loadedFrom, pipeStore,
                   stopPc, consumerOn, heartbeatOn, stopLog, startedLate, deliveries,
                   exceptWorker>>

\* lines 206-212: find_one by AnalyzeUUID on the handler's collection
TaskLoad(t) ==
    /\ tpc[t] = "load"
    /\ \E outcome \in {"record", "no_record", "raised"} :
         /\ loadedFrom' = [loadedFrom EXCEPT ![t] =
                             IF outcome = "record" THEN tHandler[t] ELSE "none"]
         /\ tpc' = [tpc EXCEPT ![t] =
                      IF outcome = "record" THEN "pipeline" ELSE TaskExit(outcome)]
    /\ UNCHANGED <<isRunning, currentTaskCount, hbTasks, tInstance, tHandler, pipeStore,
                   stopPc, consumerOn, heartbeatOn, stopLog, startedLate, deliveries,
                   exceptWorker>>

\* lines 215-222: self.pipeline.process_record(record); the pipeline was
\* built on self.mongodb_handler (line 72)
TaskPipeline(t) ==
    /\ tpc[t] = "pipeline"
    /\ \E outcome \in {"true", "false", "raised"} :
         tpc' = [tpc EXCEPT ![t] = TaskExit(outcome)]
    /\ pipeStore' = [pipeStore EXCEPT ![t] = "default"]
    /\ UNCHANGED <<isRunning, currentTaskCount, hbTasks, tInstance, tHandler, loadedFrom,
                   stopPc, consumerOn, heartbeatOn, stopLog, startedLate, deliveries,
                   exceptWorker>>

\* lines 228-230: finally: self._update_task_count(-1)
TaskFinally(t) ==
    /\ tpc[t] = "finally"
    /\ UpdateTaskCount(-1)
    /\ tpc' = [tpc EXCEPT ![t] = "idle"]
    /\ UNCHANGED <<isRunning, tInstance, tHandler, loadedFrom, pipeStore, stopPc, consumerOn,
                   heartbeatOn, stopLog, startedLate, deliveries, exceptWorker>>

\* stop(), lines 145-149: the guard and is_running = False
StopBegin ==
    /\ stopPc = "running"
    /\ isRunning
    /\ isRunning' = FALSE
    /\ stopPc' = "heartbeat"
    /\ UNCHANGED <<currentTaskCount, hbTasks, tpc, tInstance, tHandler, loadedFrom, pipeStore,
                   consumerOn, heartbeatOn, stopLog, startedLate, deliveries, exceptWorker>>

\* One statement of stop() after the guard, in the order of lines 151-171
StopStep ==
    /\ stopPc \in {"heartbeat", "consumer", "pipeline", "handler", "cached"}
    /\ stopLog' = Append(stopLog, stopPc)
    /\ heartbeatOn' = IF stopPc = "heartbeat" THEN FALSE ELSE heartbeatOn
    /\ consumerOn' = IF stopPc = "consumer" THEN FALSE ELSE consumerOn
    /\ stopPc' = CASE stopPc = "heartbeat" -> "consumer"
                   [] stopPc = "consumer" -> "pipeline"
                   [] stopPc = "pipeline" -> "handler"
                   [] stopPc = "handler" -> "cached"
                   [] OTHER -> "stopped"
    /\ UNCHANGED <<isRunning, currentTaskCount, hbTasks, tpc, tInstance, tHandler, loadedFrom,
                   pipeStore, startedLate, deliveries, exceptWorker>>

InitWorker ==
    /\ FreshDocument
    /\ fileExt = "wav"
    /\ original = analyze_features
    /\ InitPipelineIdle
    /\ InitRunsIdle
    /\ InitHandlerIdle
    /\ InitSchedIdle
    /\ InitWorkerIdle
    /\ InitRestIdle

NextWorker ==
    \/ \E t \in Tasks : TaskBegin(t)
    \/ \E t \in Tasks : TaskCount(t)
    \/ \E t \in Tasks : TaskConnect(t)
    \/ \E t \in Tasks : TaskLoad(t)
    \/ \E t \in Tasks : TaskPipeline(t)
    \/ \E t \in Tasks : TaskFinally(t)
    \/ StopBegin
    \/ StopStep

SpecWorker == InitWorker /\ [][NextWorker]_vars

(***************************************************************************)
(* The upload application's recording schedules: the schedule routes, the  *)
(* connect handler that starts the schedule checker, and the checker's     *)
(* passes over the schedule table (frontend/socket_events.py,              *)
(* frontend/routes.py, shared_state.py).                                   *)
(***************************************************************************)

Intervals == {1}
Counts == {NoCount, 0, 1, 2}

\* RecordingSchedule.__init__
NewSchedule(interval, count, t) ==
    [interval |-> interval, count |-> count, current_count |-> 0,
     next_recording_time |-> t + interval]

\* RecordingSchedule.increment_count
IncrementCount(s) == [s EXCEPT !.current_count = @ + 1]

UpdateKeepingTime(s, t) == s
\* RecordingSchedule.update_next_recording_time, called at time t
UpdateNextRecordingTime(s, t) == [s EXCEPT !.next_recording_time = t + s.interval]

\* RecordingSchedule.is_completed
IsCompleted(s) == s.count # NoCount /\ s.current_count >= s.count

ShouldStartAlways(running) == TRUE
\* handle_connect: "if not schedule_checker_running"
ShouldStartChecker(running) == ~running

HasSchedule(d) == \E i \in 1..Len(device_schedules) : device_schedules[i][1] = d
ScheduleOf(d) == (CHOOSE i \in 1..Len(device_schedules) : device_schedules[i][1] = d)
WithoutDevice(d) == SelectSeq(device_schedules, LAMBDA e : e[1] # d)
Alive(k) == chkPc[k] \in {"sleep", "iter", "locked", "exiting"}

\* POST /schedule: every device of the model is registered; a device that
\* has a schedule is refused
CreateSchedule(d, interval, count) ==
    /\ ~HasSchedule(d)
    /\ nextSchedule <= MaxSchedules
    /\ schedObj' = [schedObj EXCEPT ![nextSchedule] = NewSchedule(interval, count, now)]
    /\ device_schedules' = Append(device_schedules, <<d, nextSchedule>>)
    /\ nextSchedule' = nextSchedule + 1
    /\ UNCHANGED <<schedule_checker_running, schedule_checker_lock, connPc, chkPc, chkTime,
                   chkList, execution_locks, connected, now, recordsSent, firedDue,
                   doubleFired, removedOnCompletion, exceptTick>>

\* DELETE /schedule/<device_id>
DeleteSchedule(d) ==
    /\ HasSchedule(d)
    /\ device_schedules' = WithoutDevice(d)
    /\ UNCHANGED <<schedule_checker_running, schedule_checker_lock, connPc, chkPc, chkTime,
                   chkList, execution_locks, schedObj, nextSchedule, connected, now,
                   recordsSent, firedDue, doubleFired, removedOnCompletion, exceptTick>>

\* register_device / disconnect: the device gains or loses its session
DeviceRegister(d) ==
    /\ d \notin connected
    /\ connected' = connected \cup {d}
    /\ UNCHANGED <<schedule_checker_running, schedule_checker_lock, connPc, chkPc, chkTime,
                   chkList, execution_locks, device_schedules, schedObj, nextSchedule, now,
                   recordsSent, firedDue, doubleFired, removedOnCompletion, exceptTick>>

DeviceDisconnect(d) ==
    /\ d \in connected
    /\ connected' = connected \ {d}
    /\ UNCHANGED <<schedule_checker_running, schedule_checker_lock, connPc, chkPc, chkTime,
                   chkList, execution_locks, device_schedules, schedObj, nextSchedule, now,
                   recordsSent, firedDue, doubleFired, removedOnCompletion, exceptTick>>

TimePasses ==
    /\ now < MaxTime
    /\ now' = now + 1
    /\ UNCHANGED <<schedule_checker_running, schedule_checker_lock, connPc, chkPc, chkTime,
                   chkList, execution_locks, device_schedules, schedObj, nextSchedule,
                   connected, recordsSent, firedDue, doubleFired, removedOnCompletion,
                   exceptTick>>

\* handle_connect up to start_background_task: takes schedule_checker_lock
\* and, when the flag is clear, starts a schedule_checker task
ConnectStart(c) ==
    /\ connPc[c] = "idle"
    /\ schedule_checker_lock = 0
    /\ schedule_checker_lock' = c
    /\ IF ShouldStartChecker(schedule_checker_running)
          THEN /\ \E k \in Checkers :
                     /\ chkPc[k] = "unborn"
                     /\ \A j \in Checkers : j < k => chkPc[j] # "unborn"
                     /\ chkPc' = [chkPc EXCEPT ![k] = "sleep"]
               /\ connPc' = [connPc EXCEPT ![c] = "started"]
          ELSE /\ connPc' = [connPc EXCEPT ![c] = "skipped"]
               /\ UNCHANGED chkPc
    /\ UNCHANGED <<schedule_checker_running, chkTime, chkList, execution_locks,
                   device_schedules, schedObj, nextSchedule, connected, now, recordsSent,
                   firedDue, doubleFired, removedOnCompletion, exceptTick>>

\* handle_connect from "schedule_checker_running = True" to the release of
\* the lock
ConnectFinish(c) ==
    /\ connPc[c] \in {"started", "skipped"}
    /\ schedule_checker_running' = (schedule_checker_running \/ connPc[c] = "started")
    /\ schedule_checker_lock' = 0
    /\ connPc' = [connPc EXCEPT ![c] = "idle"]
    /\ UNCHANGED <<chkPc, chkTime, chkList, execution_locks, device_schedules, schedObj,
                   nextSchedule, connected, now, recordsSent, firedDue, doubleFired,
                   removedOnCompletion, exceptTick>>

\* check_and_execute_schedules, entry: current_time and the list of the
\* table's items are taken once per pass
CheckerPass(k) ==
    /\ chkPc[k] = "sleep"
    /\ device_schedules # <<>>
    /\ chkTime' = [chkTime EXCEPT ![k] = now]
    /\ chkList' = [chkList EXCEPT ![k] = device_schedules]
    /\ chkPc' = [chkPc EXCEPT ![k] = "iter"]
    /\ UNCHANGED <<schedule_checker_running, schedule_checker_lock, connPc, execution_locks,
                   device_schedules, schedObj, nextSchedule, connected, now, recordsSent,
                   firedDue, doubleFired, removedOnCompletion, exceptTick>>

\* the for loop moves to the next item, or the pass ends and the task
\* sleeps one second
AfterItem(k) ==
    LET rest == Tail(chkList[k]) IN
    /\ chkList' = [chkList EXCEPT ![k] = rest]
    /\ chkPc' = [chkPc EXCEPT ![k] = IF rest = <<>> THEN "sleep" ELSE "iter"]
    /\ chkTime' = [chkTime EXCEPT ![k] = IF rest = <<>> THEN 0 ELSE @]

\* an exception leaves check_and_execute_schedules and the while loop
Raised(k) ==
    /\ chkList' = [chkList EXCEPT ![k] = <<>>]
    /\ chkPc' = [chkPc EXCEPT ![k] = "exiting"]
    /\ chkTime' = [chkTime EXCEPT ![k] = 0]

\* the device's lock is created on first use and acquired without blocking;
\* a held lock makes the pass skip the device
TickAcquire(k) ==
    /\ chkPc[k] = "iter"
    /\ LET d == Head(chkList[k])[1] IN
       IF execution_locks[d] \in Checkers
          THEN /\ AfterItem(k)
               /\ UNCHANGED execution_locks
          ELSE /\ execution_locks' = [execution_locks EXCEPT ![d] = k]
               /\ chkPc' = [chkPc EXCEPT ![k] = "locked"]
               /\ UNCHANGED <<chkTime, chkList>>
    /\ UNCHANGED <<schedule_checker_running, schedule_checker_lock, connPc, device_schedules,
                   schedObj, nextSchedule, connected, now, recordsSent, firedDue,
                   doubleFired, removedOnCompletion, exceptTick>>

\* the body under the device's lock, and the release in "finally"
TickRun(k) ==
    /\ chkPc[k] = "locked"
    /\ LET d == Head(chkList[k])[1]
           id == Head(chkList[k])[2]
           s == schedObj[id]
           due == s.next_recording_time
           after == UpdateNextRecordingTime(IncrementCount(s), now)
       IN
       /\ execution_locks' = [execution_locks EXCEPT ![d] = 0]
       /\ IF chkTime[k] < due
             THEN \* not due yet
                  /\ AfterItem(k)
                  /\ UNCHANGED <<schedObj, device_schedules, recordsSent, firedDue,
                                 doubleFired, removedOnCompletion>>
             ELSE IF d \notin connected
             THEN \* next(...) finds no session of the device: StopIteration
                  /\ Raised(k)
                  /\ UNCHANGED <<schedObj, device_schedules, recordsSent, firedDue,
                                 doubleFired, removedOnCompletion>>
             ELSE /\ recordsSent' = [recordsSent EXCEPT ![id] = @ + 1]
                  /\ firedDue' = firedDue \cup {<<id, due>>}
                  /\ doubleFired' = (doubleFired \/ <<id, due>> \in firedDue)
                  /\ schedObj' = [schedObj EXCEPT ![id] = after]
                  /\ IF ~IsCompleted(after)
                        THEN /\ AfterItem(k)
                             /\ UNCHANGED <<device_schedules, removedOnCompletion>>
                        ELSE IF HasSchedule(d)
                        THEN \* del device_schedules[device_id]
                             /\ device_schedules' = WithoutDevice(d)
                             /\ removedOnCompletion' =
                                   removedOnCompletion \cup {device_schedules[ScheduleOf(d)][2]}
                             /\ AfterItem(k)
                        ELSE \* KeyError: the entry was deleted meanwhile
                             /\ Raised(k)
                             /\ UNCHANGED <<device_schedules, removedOnCompletion>>
    /\ UNCHANGED <<schedule_checker_running, schedule_checker_lock, connPc, nextSchedule,
                   connected, now, exceptTick>>

\* schedule_checker's "finally": clears the flag under the lock
CheckerExit(k) ==
    /\ chkPc[k] = "exiting"
    /\ schedule_checker_lock = 0
    /\ schedule_checker_running' = FALSE
    /\ chkPc' = [chkPc EXCEPT ![k] = "dead"]
    /\ UNCHANGED <<schedule_checker_lock, connPc, chkTime, chkList, execution_locks,
                   device_schedules, schedObj, nextSchedule, connected, now, recordsSent,
                   firedDue, doubleFired, removedOnCompletion, exceptTick>>

InitCoreIdle ==
    /\ FreshDocument
    /\ fileExt = "wav"
    /\ original = analyze_features
    /\ InitPipelineIdle
    /\ InitRunsIdle
    /\ InitHandlerIdle

InitSchedules ==
    /\ InitCoreIdle
    /\ InitMoreIdle
    /\ InitSchedIdle
    /\ InitWorkerIdle
    /\ InitTickIdle
    /\ InitMonIdle
    /\ InitDelIdle

NextSchedules ==
    \/ \E d \in Devices, interval \in Intervals, count \in Counts :
          CreateSchedule(d, interval, count)
    \/ \E d \in Devices : DeleteSchedule(d)
    \/ \E d \in Devices : DeviceRegister(d)
    \/ \E d \in Devices : DeviceDisconnect(d)
    \/ TimePasses
    \/ \E c \in Clients : ConnectStart(c)
    \/ \E c \in Clients : ConnectFinish(c)
    \/ \E k \in Checkers : CheckerPass(k)
    \/ \E k \in Checkers : TickAcquire(k)
    \/ \E k \in Checkers : TickRun(k)
    \/ \E k \in Checkers : CheckerExit(k)

SpecSchedules == InitSchedules /\ [][NextSchedules]_vars

(***************************************************************************)
(* The node monitor (core/state_management/services/node_monitor.py) over  *)
(* the node registry's listing (models/node_status.py).                    *)
(***************************************************************************)

\* What NodeStatus.get_all_nodes can give for a node: no document (never
\* registered, deregistered, expired, or the store raised and the list is
\* empty), or a document with the derived status
Listings == [NodeIds -> {"absent", "online", "offline"}]

\* the nodes of the list, in the store's order
ListedNodes(listing) == SelectSeq([i \in 1..NumNodes |-> i], LAMBDA n : listing[n] # "absent")

\* "if previous_status and previous_status != 'online'"
WentOnline(previous) == previous # "none" /\ previous # "online"

WentOfflineAlways(previous) == TRUE
\* "if previous_status == 'online'"
WentOffline(previous) == previous = "online"

\* the for loop of _check_all_nodes: per node, the notification if any and
\* the update of previous_node_status
RECURSIVE CheckNodes(_, _, _, _)
CheckNodes(nodes, listing, previous, notes) ==
    IF nodes = <<>>
       THEN [previous |-> previous, notified |-> notes]
       ELSE LET n == Head(nodes)
                current_status == listing[n]
                online == current_status = "online" /\ WentOnline(previous[n])
                offline == current_status # "online" /\ WentOffline(previous[n])
            IN CheckNodes(Tail(nodes), listing,
                          [previous EXCEPT ![n] = current_status],
                          [notes EXCEPT ![n] = <<@[1] + (IF online THEN 1 ELSE 0),
                                                 @[2] + (IF offline THEN 1 ELSE 0)>>])

\* one tick of the monitor's loop
CheckAllNodes(listing) ==
    LET nodes == ListedNodes(listing)
        r == CheckNodes(nodes, listing, previous_node_status, [n \in NodeIds |-> <<0, 0>>])
    IN
    /\ previous_node_status' = r.previous
    /\ notified' = r.notified
    /\ statsSent' = IF nodes # <<>> THEN 1 ELSE 0
    /\ priorListing' = tickListing
    /\ tickListing' = listing
    /\ UNCHANGED exceptMon

InitMonitor ==
    /\ InitCoreIdle
    /\ InitMoreIdle
    /\ InitSchedIdle
    /\ InitWorkerIdle
    /\ InitTickIdle
    /\ InitMonIdle
    /\ InitDelIdle

NextMonitor ==
    \E listing \in Listings : CheckAllNodes(listing)

SpecMonitor == InitMonitor /\ [][NextMonitor]_vars

(***************************************************************************)
(* The destructive bulk operations: BatchDeleter.execute_deletion          *)
(* (a_sub_system/batch_delete/batch_delete.py) and the integration         *)
(* uploader's delete_database_with_backup                                  *)
(* (debug_tools/batch_upload/Integration_upload/intergration_upload_main.py) *)
(* on a collection that the upload application keeps writing to.           *)
(***************************************************************************)

MaxCeiling == 2
\* "if record_count > 1000": the threshold, scaled to the model's
\* collection of NumRecs records
ConfirmAbove == 1

\* the documents the query of build_query selects at this moment
Matched == dStore \cap selected

ExceedsNever(count, max_count) == FALSE
\* "if max_count > 0 and count > max_count"
ExceedsCeiling(count, max_count) == max_count > 0 /\ count > max_count

\* MongoDBUploader.count_records
CountRecords == Cardinality(dStore)

\* MongoDBUploader.backup_all_records: the export of every existing record
BackupAllRecords == dStore

\* MongoDBUploader.delete_all_records: removes every existing record
DeleteAllRecords == dStore

\* the upload application inserts a recording and its blob
Upload(r) ==
    /\ r \notin dStore
    /\ r \notin deletedByOp
    /\ dStore' = dStore \cup {r}
    /\ dBlobs' = dBlobs \cup {r}
    /\ UNCHANGED <<opKind, maxDeleteCount, requireConfirmation, backupBeforeDelete, softDelete,
                   deleteGridfs, selected, dFlagged, dpc, countAtCheck, promptShown, answer,
                   backupDone, backupSet, deletedByOp, flaggedByOp, blobsDeletedByOp,
                   exceptDel>>

\* execute_deletion up to the confirmation prompt; count_records gives 0
\* when the store raises
ExecuteCount(counted) ==
    /\ opKind = "batch_delete"
    /\ dpc = "start"
    /\ LET count == IF counted THEN Cardinality(Matched) ELSE 0 IN
       /\ countAtCheck' = count
       /\ IF count = 0
             THEN dpc' = "done" /\ UNCHANGED promptShown
             ELSE IF ExceedsCeiling(count, maxDeleteCount)
             THEN dpc' = "refused" /\ UNCHANGED promptShown
             ELSE IF requireConfirmation
             THEN dpc' = "confirm" /\ promptShown' = TRUE
             ELSE dpc' = "backup" /\ UNCHANGED promptShown
    /\ UNCHANGED <<opKind, maxDeleteCount, requireConfirmation, backupBeforeDelete, softDelete,
                   deleteGridfs, selected, dStore, dFlagged, dBlobs, answer, backupDone,
                   backupSet, deletedByOp, flaggedByOp, blobsDeletedByOp, exceptDel>>

\* the operator's answer: only the exact string DELETE goes on
ExecuteConfirm(typed) ==
    /\ opKind = "batch_delete"
    /\ dpc = "confirm"
    /\ answer' = typed
    /\ dpc' = IF typed = "DELETE" THEN "backup" ELSE "cancelled"
    /\ UNCHANGED <<opKind, maxDeleteCount, requireConfirmation, backupBeforeDelete, softDelete,
                   deleteGridfs, selected, dStore, dFlagged, dBlobs, countAtCheck, promptShown,
                   backupDone, backupSet, deletedByOp, flaggedByOp, blobsDeletedByOp,
                   exceptDel>>

\* the backup block: backup_records exports the documents the query selects
\* now, or returns False
ExecuteBackup(exported) ==
    /\ opKind = "batch_delete"
    /\ dpc = "backup"
    /\ IF ~backupBeforeDelete
          THEN /\ exported
               /\ dpc' = "delete"
               /\ UNCHANGED <<backupDone, backupSet>>
          ELSE IF exported
          THEN /\ backupSet' = Matched
               /\ backupDone' = TRUE
               /\ dpc' = "delete"
          ELSE /\ dpc' = "aborted"
               /\ UNCHANGED <<backupDone, backupSet>>
    /\ UNCHANGED <<opKind, maxDeleteCount, requireConfirmation, backupBeforeDelete, softDelete,
                   deleteGridfs, selected, dStore, dFlagged, dBlobs, countAtCheck, promptShown,
                   answer, deletedByOp, flaggedByOp, blobsDeletedByOp, exceptDel>>

\* delete_records: queries again, then per document flags it or removes its
\* blob and the document; "failed" are the documents whose update_one or
\* delete_one raised
ExecuteDelete(failed) ==
    /\ opKind = "batch_delete"
    /\ dpc = "delete"
    /\ failed \subseteq Matched
    /\ LET records == Matched
           done == records \ failed
       IN
       IF softDelete
          THEN /\ dFlagged' = dFlagged \cup done
               /\ flaggedByOp' = flaggedByOp \cup done
               /\ UNCHANGED <<dStore, dBlobs, deletedByOp, blobsDeletedByOp>>
          ELSE /\ dStore' = dStore \ done
               /\ deletedByOp' = deletedByOp \cup done
               /\ dBlobs' = IF deleteGridfs THEN dBlobs \ records ELSE dBlobs
               /\ blobsDeletedByOp' = IF deleteGridfs
                                         THEN blobsDeletedByOp \cup (records \cap dBlobs)
                                         ELSE blobsDeletedByOp
               /\ UNCHANGED <<dFlagged, flaggedByOp>>
    /\ dpc' = "done"
    /\ UNCHANGED <<opKind, maxDeleteCount, requireConfirmation, backupBeforeDelete, softDelete,
                   deleteGridfs, selected, countAtCheck, promptShown, answer, backupDone,
                   backupSet, exceptDel>>

\* delete_database_with_backup up to the confirmation prompt
ResetCount ==
    /\ opKind = "reset"
    /\ dpc = "start"
    /\ countAtCheck' = CountRecords
    /\ IF CountRecords = 0
          THEN dpc' = "done" /\ UNCHANGED promptShown
          ELSE IF CountRecords > ConfirmAbove
          THEN dpc' = "confirm" /\ promptShown' = TRUE
          ELSE dpc' = "backup" /\ UNCHANGED promptShown
    /\ UNCHANGED <<opKind, maxDeleteCount, requireConfirmation, backupBeforeDelete, softDelete,
                   deleteGridfs, selected, dStore, dFlagged, dBlobs, answer, backupDone,
                   backupSet, deletedByOp, flaggedByOp, blobsDeletedByOp, exceptDel>>

\* the operator's answer: "y" goes on, anything else exits
ResetConfirm(typed) ==
    /\ opKind = "reset"
    /\ dpc = "confirm"
    /\ answer' = typed
    /\ dpc' = IF typed = "y" THEN "backup" ELSE "cancelled"
    /\ UNCHANGED <<opKind, maxDeleteCount, requireConfirmation, backupBeforeDelete, softDelete,
                   deleteGridfs, selected, dStore, dFlagged, dBlobs, countAtCheck, promptShown,
                   backupDone, backupSet, deletedByOp, flaggedByOp, blobsDeletedByOp,
                   exceptDel>>

\* "if not uploader.backup_all_records(backup_file): ... sys.exit(1)"
ResetBackup(exported) ==
    /\ opKind = "reset"
    /\ dpc = "backup"
    /\ IF exported
          THEN /\ backupSet' = BackupAllRecords
               /\ backupDone' = TRUE
               /\ dpc' = "delete"
          ELSE /\ dpc' = "aborted"
               /\ UNCHANGED <<backupDone, backupSet>>
    /\ UNCHANGED <<opKind, maxDeleteCount, requireConfirmation, backupBeforeDelete, softDelete,
                   deleteGridfs, selected, dStore, dFlagged, dBlobs, countAtCheck, promptShown,
                   answer, deletedByOp, flaggedByOp, blobsDeletedByOp, exceptDel>>

\* "deleted_count = uploader.delete_all_records()"; 0 reports a failure
ResetDelete(removed) ==
    /\ opKind = "reset"
    /\ dpc = "delete"
    /\ IF removed /\ DeleteAllRecords # {}
          THEN /\ dStore' = dStore \ DeleteAllRecords
               /\ deletedByOp' = deletedByOp \cup DeleteAllRecords
               /\ dpc' = "done"
          ELSE /\ dpc' = "failed"
               /\ UNCHANGED <<dStore, deletedByOp>>
    /\ UNCHANGED <<opKind, maxDeleteCount, requireConfirmation, backupBeforeDelete, softDelete,
                   deleteGridfs, selected, dFlagged, dBlobs, countAtCheck, promptShown, answer,
                   backupDone, backupSet, flaggedByOp, blobsDeletedByOp, exceptDel>>

InitDelete ==
    /\ InitCoreIdle
    /\ InitMoreIdle
    /\ InitSchedIdle
    /\ InitWorkerIdle
    /\ InitTickIdle
    /\ InitMonIdle
    /\ opKind \in {"batch_delete", "reset"}
    /\ maxDeleteCount \in 0..MaxCeiling
    /\ requireConfirmation \in BOOLEAN
    /\ backupBeforeDelete \in BOOLEAN
    /\ softDelete \in BOOLEAN
    /\ deleteGridfs \in BOOLEAN
    /\ selected \in SUBSET RecIds
    \* the reset takes no configuration and selects every record
    /\ opKind = "reset" =>
          /\ maxDeleteCount = 0
          /\ requireConfirmation
          /\ backupBeforeDelete
          /\ ~softDelete
          /\ deleteGridfs
          /\ selected = RecIds
    /\ dStore \in SUBSET RecIds
    /\ dFlagged = {}
    /\ dBlobs = dStore
    /\ dpc = "start"
    /\ countAtCheck = 0
    /\ promptShown = FALSE
    /\ answer = "none"
    /\ backupDone = FALSE
    /\ backupSet = {}
    /\ deletedByOp = {}
    /\ flaggedByOp = {}
    /\ blobsDeletedByOp = {}

NextDelete ==
    \/ \E r \in RecIds : Upload(r)
    \/ \E counted \in BOOLEAN : ExecuteCount(counted)
    \/ \E typed \in {"DELETE", "delete"} : ExecuteConfirm(typed)
    \/ \E exported \in BOOLEAN : ExecuteBackup(exported)
    \/ \E failed \in SUBSET RecIds : ExecuteDelete(failed)
    \/ ResetCount
    \/ \E typed \in {"y", "n"} : ResetConfirm(typed)
    \/ \E exported \in BOOLEAN : ResetBackup(exported)
    \/ \E removed \in BOOLEAN : ResetDelete(removed)

SpecDelete == InitDelete /\ [][NextDelete]_vars

(***************************************************************************)
(* The instance watchers of the task scheduler: TaskScheduler.start,       *)
(* _start_watcher, _watch_instance and _check_watchers.  A watcher thread  *)
(* is "trying" (about to connect and open its watch), "watching" (inside   *)
(* _watch_with_change_stream or _watch_with_polling) or "dead" (the thread *)
(* function returned).                                                     *)
(***************************************************************************)

max_retries == 3

\* the condition of the while loop of _watch_instance
KeepsWatchingAlways(running, count) == running
KeepsWatching(running, count) == running /\ count < max_retries

\* time.sleep(5 * retry_count)
Backoff(count) == 5 * count

\* the test of _check_watchers: no thread was stored for the instance, or the
\* stored thread is not alive
IsStoppedNever(position) == position = "unstarted"
IsStopped(position) == position \in {"unstarted", "dead"}

\* start(): running is set, then one thread per enabled instance
StartWatchers ==
    /\ ~schedRunning
    /\ \A i \in InstanceIds : wPc[i] = "unstarted"
    /\ schedRunning' = TRUE
    /\ wPc' = [i \in InstanceIds |-> "trying"]
    /\ supervised' = TRUE
    /\ UNCHANGED <<retry_count, lastDelay, gaveUp, triedAfterGiveUp, restarted, exceptWatch>>

\* the except branch of _watch_instance, followed by the loop test
AfterFailure(i) ==
    LET count == retry_count[i] + 1
        goesOn == KeepsWatching(schedRunning, count)
    IN  /\ retry_count' = [retry_count EXCEPT ![i] = count]
        /\ lastDelay' = [lastDelay EXCEPT ![i] = Backoff(count)]
        /\ wPc' = [wPc EXCEPT ![i] = IF goesOn THEN "trying" ELSE "dead"]
        /\ gaveUp' = [gaveUp EXCEPT ![i] = @ \/ count >= max_retries]
        /\ supervised' = (supervised /\ goesOn)

\* one pass of the loop body up to the watch call: connect and open the watch
WatchConnect(i, ok) ==
    /\ wPc[i] = "trying"
    /\ KeepsWatching(schedRunning, retry_count[i])
    /\ triedAfterGiveUp' = [triedAfterGiveUp EXCEPT ![i] = @ \/ gaveUp[i]]
    /\ IF ok
         THEN /\ wPc' = [wPc EXCEPT ![i] = "watching"]
              /\ UNCHANGED <<retry_count, lastDelay, gaveUp, supervised>>
         ELSE AfterFailure(i)
    /\ UNCHANGED <<schedRunning, restarted, exceptWatch>>

\* the watch raises (the connection is lost)
WatchBreaks(i) ==
    /\ wPc[i] = "watching"
    /\ AfterFailure(i)
    /\ UNCHANGED <<schedRunning, triedAfterGiveUp, restarted, exceptWatch>>

\* the thread sees running cleared and leaves its loop
WatchExit(i) ==
    /\ wPc[i] \in {"trying", "watching"}
    /\ ~schedRunning
    /\ wPc' = [wPc EXCEPT ![i] = "dead"]
    /\ UNCHANGED <<schedRunning, retry_count, lastDelay, gaveUp, triedAfterGiveUp, restarted,
                   supervised, exceptWatch>>

\* _check_watchers: every instance whose thread is not alive gets a new
\* thread, whose retry_count starts at 0
CheckWatchers ==
    /\ schedRunning
    /\ wPc' = [i \in InstanceIds |-> IF IsStopped(wPc[i]) THEN "trying" ELSE wPc[i]]
    /\ retry_count' = [i \in InstanceIds |-> IF IsStopped(wPc[i]) THEN 0 ELSE retry_count[i]]
    /\ lastDelay' = [i \in InstanceIds |-> IF IsStopped(wPc[i]) THEN 0 ELSE lastDelay[i]]
    /\ restarted' = [i \in InstanceIds |-> restarted[i] \/ IsStopped(wPc[i])]
    /\ supervised' = TRUE
    /\ UNCHANGED <<schedRunning, gaveUp, triedAfterGiveUp, exceptWatch>>

\* stop()
StopScheduler ==
    /\ schedRunning
    /\ schedRunning' = FALSE
    /\ UNCHANGED <<wPc, retry_count, lastDelay, gaveUp, triedAfterGiveUp, restarted, supervised,
                   exceptWatch>>

InitWatchers ==
    /\ InitCoreIdle
    /\ InitSchedIdle
    /\ InitWorkerIdle
    /\ InitTickIdle
    /\ InitMonIdle
    /\ InitDelIdle
    /\ InitWatchIdle
    /\ InitPollIdle
    /\ InitRegIdle
    /\ InitAccessIdle
    /\ InitUploadIdle
    /\ InitSumIdle
    /\ InitLimIdle

NextWatchers ==
    \/ StartWatchers
    \/ \E i \in InstanceIds, ok \in BOOLEAN : WatchConnect(i, ok)
    \/ \E i \in InstanceIds : WatchBreaks(i)
    \/ \E i \in InstanceIds : WatchExit(i)
    \/ CheckWatchers
    \/ StopScheduler

SpecWatchers == InitWatchers /\ [][NextWatchers]_vars

(***************************************************************************)
(* The polling fallback of one watcher: _watch_with_polling.  Every        *)
(* reading of the clock (an insert's upload_time, a datetime.utcnow() of   *)
(* the watcher) gets a time later than all readings before it.  The        *)
(* uploaders under src/ store upload_time as an ISO-8601 string            *)
(* (routes.py line 323, batch_upload.py line 184); another writer may      *)
(* store a date.                                                           *)
(***************************************************************************)

MaxClock == 6
MaxDispatch == 2
UploadTypes == {"string", "date"}

\* {'info_features.upload_time': {'$gt': last_check_time}} with a datetime
\* operand: the store compares within one BSON type, so only a upload_time
\* stored as a date can match
Matches(u, last) == uploadType[u] = "date" /\ upload_time[u] > last

\* the first record of the cursor, which is sorted by upload_time ascending
FirstOf(batch) == CHOOSE u \in batch : \A v \in batch : upload_time[u] <= upload_time[v]

\* an uploader inserts a recording
InsertRecording(u, type) ==
    /\ upload_time[u] = 0
    /\ pollClock < MaxClock
    /\ pollClock' = pollClock + 1
    /\ upload_time' = [upload_time EXCEPT ![u] = pollClock + 1]
    /\ uploadType' = [uploadType EXCEPT ![u] = type]
    /\ duringWatch' = IF pollPc = "idle" THEN duringWatch ELSE duringWatch \cup {u}
    /\ UNCHANGED <<pollPc, last_check_time, pollBatch, dispatched, exceptPoll>>

\* the watcher enters polling mode: last_check_time = datetime.utcnow()
PollStart ==
    /\ pollPc = "idle"
    /\ pollClock < MaxClock
    /\ pollClock' = pollClock + 1
    /\ last_check_time' = pollClock + 1
    /\ pollPc' = "query"
    /\ UNCHANGED <<upload_time, uploadType, duringWatch, pollBatch, dispatched, exceptPoll>>

\* collection.find(...).sort(...)
PollQuery ==
    /\ pollPc = "query"
    /\ pollBatch' = {u \in UploadIds : upload_time[u] # 0 /\ Matches(u, last_check_time)}
    /\ pollPc' = "process"
    /\ UNCHANGED <<pollClock, last_check_time, upload_time, uploadType, duringWatch, dispatched,
                   exceptPoll>>

\* one pass of the for loop: self._process_new_record(instance_id, record)
PollDispatch ==
    /\ pollPc = "process"
    /\ pollBatch # {}
    /\ dispatched[FirstOf(pollBatch)] < MaxDispatch
    /\ dispatched' = [dispatched EXCEPT ![FirstOf(pollBatch)] = @ + 1]
    /\ pollBatch' = pollBatch \ {FirstOf(pollBatch)}
    /\ UNCHANGED <<pollPc, pollClock, last_check_time, upload_time, uploadType, duringWatch,
                   exceptPoll>>

\* the cursor raises while it is read: the except branch leaves
\* last_check_time as it was and the loop polls again
PollRaise ==
    /\ pollPc = "process"
    /\ pollBatch # {}
    /\ pollBatch' = {}
    /\ pollPc' = "query"
    /\ UNCHANGED <<pollClock, last_check_time, upload_time, uploadType, duringWatch, dispatched,
                   exceptPoll>>

\* the cursor is exhausted: last_check_time = datetime.utcnow()
PollUpdate ==
    /\ pollPc = "process"
    /\ pollBatch = {}
    /\ pollClock < MaxClock
    /\ pollClock' = pollClock + 1
    /\ last_check_time' = pollClock + 1
    /\ pollPc' = "query"
    /\ UNCHANGED <<upload_time, uploadType, duringWatch, pollBatch, dispatched, exceptPoll>>

InitPolling ==
    /\ InitCoreIdle
    /\ InitSchedIdle
    /\ InitWorkerIdle
    /\ InitTickIdle
    /\ InitMonIdle
    /\ InitDelIdle
    /\ InitWatchIdle
    /\ InitPollIdle
    /\ InitRegIdle
    /\ InitAccessIdle
    /\ InitUploadIdle
    /\ InitSumIdle
    /\ InitLimIdle

NextPolling ==
    \/ \E u \in UploadIds, type \in UploadTypes : InsertRecording(u, type)
    \/ PollStart
    \/ PollQuery
    \/ PollDispatch
    \/ PollRaise
    \/ PollUpdate

SpecPolling == InitPolling /\ [][NextPolling]_vars

(***************************************************************************)
(* The node registry (NodeStatus), its TTL index and the heartbeat sender  *)
(* of the workers.  Time is counted in heartbeat intervals of 30 seconds;  *)
(* the TTL index removes a document 60 seconds, two intervals, after its   *)
(* last_heartbeat.                                                         *)
(***************************************************************************)

TtlIntervals == 2

\* NodeStatus.update_heartbeat: update_one on {'_id': node_id} without
\* upsert; the result is whether a document was modified
UpdateHeartbeat(exists) == exists

\* the handler of POST /api/nodes/heartbeat: it passes the node id to
\* update_heartbeat and answers with its result
HeartbeatRoute(n) ==
    /\ nodeDoc' = [nodeDoc EXCEPT ![n] = UpdateHeartbeat(nodeDoc[n])]
    /\ beatAge' = [beatAge EXCEPT ![n] = IF UpdateHeartbeat(nodeDoc[n]) THEN 0 ELSE @]

\* a worker starts: register_node upserts its document, then the heartbeat
\* sender is started
WorkerRegister(n) ==
    /\ ~workerUp[n]
    /\ workerUp' = [workerUp EXCEPT ![n] = TRUE]
    /\ nodeDoc' = [nodeDoc EXCEPT ![n] = TRUE]
    /\ beatAge' = [beatAge EXCEPT ![n] = 0]
    /\ UNCHANGED <<expiredRunning, beatAfterExpiry, lastAnswer, exceptReg>>

\* _send_heartbeat: the POST reaches the control plane or fails; either way
\* the sender logs the outcome and waits for the next interval
SendHeartbeat(n, delivered) ==
    /\ workerUp[n]
    /\ IF delivered
         THEN /\ HeartbeatRoute(n)
              /\ beatAfterExpiry' = [beatAfterExpiry EXCEPT ![n] = @ \/ expiredRunning[n]]
              /\ lastAnswer' = [lastAnswer EXCEPT ![n] =
                                  IF UpdateHeartbeat(nodeDoc[n]) THEN "success" ELSE "failure"]
         ELSE /\ lastAnswer' = [lastAnswer EXCEPT ![n] = "network error"]
              /\ UNCHANGED <<nodeDoc, beatAge, beatAfterExpiry>>
    /\ UNCHANGED <<workerUp, expiredRunning, exceptReg>>

\* the worker is stopped: the heartbeat sender ends; its document stays until
\* the TTL index removes it
WorkerStop(n) ==
    /\ workerUp[n]
    /\ workerUp' = [workerUp EXCEPT ![n] = FALSE]
    /\ expiredRunning' = [expiredRunning EXCEPT ![n] = FALSE]
    /\ beatAfterExpiry' = [beatAfterExpiry EXCEPT ![n] = FALSE]
    /\ lastAnswer' = [lastAnswer EXCEPT ![n] = "none"]
    /\ UNCHANGED <<nodeDoc, beatAge, exceptReg>>

\* a heartbeat interval passes
IntervalPasses ==
    /\ \E n \in NodeIds : nodeDoc[n] /\ beatAge[n] < TtlIntervals
    /\ beatAge' = [n \in NodeIds |->
                     IF nodeDoc[n] /\ beatAge[n] < TtlIntervals THEN beatAge[n] + 1
                     ELSE beatAge[n]]
    /\ UNCHANGED <<nodeDoc, workerUp, expiredRunning, beatAfterExpiry, lastAnswer, exceptReg>>

\* the TTL index removes a document whose last_heartbeat is 60 seconds old
TtlExpire(n) ==
    /\ nodeDoc[n]
    /\ beatAge[n] >= TtlIntervals
    /\ nodeDoc' = [nodeDoc EXCEPT ![n] = FALSE]
    /\ expiredRunning' = [expiredRunning EXCEPT ![n] = @ \/ workerUp[n]]
    /\ UNCHANGED <<beatAge, workerUp, beatAfterExpiry, lastAnswer, exceptReg>>

InitRegistry ==
    /\ InitCoreIdle
    /\ InitSchedIdle
    /\ InitWorkerIdle
    /\ InitTickIdle
    /\ InitMonIdle
    /\ InitDelIdle
    /\ InitWatchIdle
    /\ InitPollIdle
    /\ InitRegIdle
    /\ InitAccessIdle
    /\ InitUploadIdle
    /\ InitSumIdle
    /\ InitLimIdle

NextRegistry ==
    \/ \E n \in NodeIds : WorkerRegister(n)
    \/ \E n \in NodeIds, delivered \in BOOLEAN : SendHeartbeat(n, delivered)
    \/ \E n \in NodeIds : WorkerStop(n)
    \/ IntervalPasses
    \/ \E n \in NodeIds : TtlExpire(n)

SpecRegistry == InitRegistry /\ [][NextRegistry]_vars

(***************************************************************************)
(* The routes of the control plane: the admin web views (views/*.py), the  *)
(* JSON API of the routing rules (api/routing_api.py) and the change of    *)
(* one's own password.  A request is made by an anonymous client, by a     *)
(* logged-in user without the admin role, or by a logged-in admin.         *)
(***************************************************************************)

Requesters == {"anonymous", "user", "admin"}
ReadOps == {"list", "view"}
WriteOps == {"create", "edit", "delete", "toggle"}

\* current_user.is_authenticated and current_user.is_admin()
IsAuthenticated(who) == who # "anonymous"
IsAdmin(who) == who = "admin"

\* the decorators of auth/decorators.py
LoginRequired(who) == IsAuthenticated(who)
AdminRequired(who) == IsAuthenticated(who) /\ IsAdmin(who)

\* the routes views/*.py define for each kind of object
ViewOps(kind) ==
    CASE kind = "node" -> {"list", "view", "delete"}
      [] kind = "user" -> {"list", "view", "create", "edit", "delete"}
      [] OTHER -> ReadOps \cup WriteOps

\* the decorator each view carries: the mutating views and every user view
\* are admin_required, the other read views login_required
ViewAllows(kind, op, who) ==
    IF op \in WriteOps \/ kind = "user" THEN AdminRequired(who) ELSE LoginRequired(who)

\* what a handler does once it runs
Effect(kind, op, who) ==
    IF op \in ReadOps
      THEN /\ readBy' = readBy \cup {who}
           /\ UNCHANGED <<cpPresent, cpEnabled, lastWriter>>
      ELSE /\ cpPresent' = [cpPresent EXCEPT ![kind] =
                              CASE op = "create" -> TRUE
                                [] op = "delete" -> FALSE
                                [] OTHER -> @]
           /\ cpEnabled' = [cpEnabled EXCEPT ![kind] =
                              CASE op = "create" -> TRUE
                                [] op = "toggle" -> ~@
                                [] OTHER -> @]
           /\ lastWriter' = [lastWriter EXCEPT ![kind] = who]
           /\ UNCHANGED readBy

\* the object a handler works on is there (or, for create, is not)
Applicable(kind, op) ==
    CASE op = "list" -> TRUE
      [] op = "create" -> ~cpPresent[kind]
      [] OTHER -> cpPresent[kind]

\* a request to one of the web views
ViewRequest(who, kind, op) ==
    /\ op \in ViewOps(kind)
    /\ Applicable(kind, op)
    /\ IF ViewAllows(kind, op, who)
         THEN Effect(kind, op, who)
         ELSE UNCHANGED <<cpPresent, cpEnabled, lastWriter, readBy>>
    /\ UNCHANGED exceptAccess

\* a request to the JSON API of the routing rules (get_all_rules, get_rule,
\* create_rule, update_rule, delete_rule): the handlers carry no decorator
ApiRuleRequest(who, op) ==
    /\ op \in {"list", "view", "create", "edit", "delete"}
    /\ Applicable("rule", op)
    /\ Effect("rule", op, who)
    /\ UNCHANGED exceptAccess

\* change_password: a logged-in user replaces their own password hash
ChangePassword(who) ==
    /\ cpPresent["user"]
    /\ IF IsAuthenticated(who)
         THEN Effect("user", "edit", who)
         ELSE UNCHANGED <<cpPresent, cpEnabled, lastWriter, readBy>>
    /\ UNCHANGED exceptAccess

InitAccess ==
    /\ InitCoreIdle
    /\ InitSchedIdle
    /\ InitWorkerIdle
    /\ InitTickIdle
    /\ InitMonIdle
    /\ InitDelIdle
    /\ InitMoreIdle

NextAccess ==
    \/ \E who \in Requesters, kind \in Kinds, op \in ReadOps \cup WriteOps :
          ViewRequest(who, kind, op)
    \/ \E who \in Requesters, op \in ReadOps \cup WriteOps : ApiRuleRequest(who, op)
    \/ \E who \in Requesters : ChangePassword(who)

SpecAccess == InitAccess /\ [][NextAccess]_vars

(***************************************************************************)
(* The upload paths: BatchUploader.upload_single_file with                 *)
(* MongoDBUploader.file_exists / upload_file for one file that two batch   *)
(* runs, one after the other, find in the dataset, and the web endpoint    *)
(* upload_recording for another file.  skip_existing and check_duplicates  *)
(* are on, as shipped.  Each call of the blob store or of the collection   *)
(* succeeds or raises.                                                     *)
(***************************************************************************)

MaxBlobs == 4
retry_attempts == 3

\* file_exists: a document with the file's hash is in the collection
FileExists(f) == upDocs[f] # <<>>

\* the blobs of a file that no document references
Orphans(f) == {b \in upBlobs[f] : \A i \in 1..Len(upDocs[f]) : upDocs[f][i] # b}

\* fs.put followed by insert_one, for a file: the blob is stored first; when
\* the insert raises the blob stays
PutThenInsert(f, putOk, insertOk) ==
    /\ upBlobs' = [upBlobs EXCEPT ![f] = IF putOk THEN @ \cup {nextBlob} ELSE @]
    /\ upDocs' = [upDocs EXCEPT ![f] = IF putOk /\ insertOk THEN Append(@, nextBlob) ELSE @]
    /\ nextBlob' = IF putOk THEN nextBlob + 1 ELSE nextBlob

\* a batch run starts after the run before it has ended: _load_progress
RunStart(r) ==
    /\ upPc[r] = "idle"
    /\ r > 1 => upPc[r - 1] = "done"
    /\ upPc' = [upPc EXCEPT ![r] = "check"]
    /\ upProgress' = [upProgress EXCEPT ![r] = progressFile]
    /\ UNCHANGED <<upAttempt, upOutcome, progressFile, upBlobs, upDocs, nextBlob, exceptUpload>>

\* upload_single_file up to the retry loop: the two duplicate checks
RunCheck(r) ==
    /\ upPc[r] = "check"
    /\ IF upProgress[r]
         THEN /\ upOutcome' = [upOutcome EXCEPT ![r] = "skipped"]
              /\ upPc' = [upPc EXCEPT ![r] = "done"]
              /\ UNCHANGED <<upProgress, progressFile>>
         ELSE IF FileExists("batch")
           THEN /\ upOutcome' = [upOutcome EXCEPT ![r] = "skipped"]
                /\ upPc' = [upPc EXCEPT ![r] = "done"]
                /\ upProgress' = [upProgress EXCEPT ![r] = TRUE]
                /\ progressFile' = TRUE
           ELSE /\ upPc' = [upPc EXCEPT ![r] = "upload"]
                /\ UNCHANGED <<upOutcome, upProgress, progressFile>>
    /\ UNCHANGED <<upAttempt, upBlobs, upDocs, nextBlob, exceptUpload>>

\* one pass of the retry loop: upload_file, then success or the next attempt
RunAttempt(r, putOk, insertOk) ==
    /\ upPc[r] = "upload"
    /\ nextBlob <= MaxBlobs
    /\ PutThenInsert("batch", putOk, insertOk)
    /\ upAttempt' = [upAttempt EXCEPT ![r] = @ + 1]
    /\ IF putOk /\ insertOk
         THEN /\ upOutcome' = [upOutcome EXCEPT ![r] = "success"]
              /\ upPc' = [upPc EXCEPT ![r] = "done"]
              /\ upProgress' = [upProgress EXCEPT ![r] = TRUE]
              /\ progressFile' = TRUE
         ELSE /\ upOutcome' = [upOutcome EXCEPT ![r] =
                                 IF upAttempt[r] + 1 >= retry_attempts THEN "failed" ELSE @]
              /\ upPc' = [upPc EXCEPT ![r] =
                            IF upAttempt[r] + 1 >= retry_attempts THEN "done" ELSE @]
              /\ UNCHANGED <<upProgress, progressFile>>
    /\ UNCHANGED exceptUpload

\* upload_recording: the blob is stored, then the document is inserted; a
\* failure of either answers 500
WebUpload(putOk, insertOk) ==
    /\ nextBlob <= MaxBlobs
    /\ PutThenInsert("web", putOk, insertOk)
    /\ UNCHANGED <<upPc, upAttempt, upOutcome, upProgress, progressFile, exceptUpload>>

InitUpload ==
    /\ InitCoreIdle
    /\ InitSchedIdle
    /\ InitWorkerIdle
    /\ InitTickIdle
    /\ InitMonIdle
    /\ InitDelIdle
    /\ InitMoreIdle

NextUpload ==
    \/ \E r \in RunIds : RunStart(r)
    \/ \E r \in RunIds : RunCheck(r)
    \/ \E r \in RunIds, putOk \in BOOLEAN, insertOk \in BOOLEAN : RunAttempt(r, putOk, insertOk)
    \/ \E putOk \in BOOLEAN, insertOk \in BOOLEAN : WebUpload(putOk, insertOk)

SpecUpload == InitUpload /\ [][NextUpload]_vars

(***************************************************************************)
(* The classification summary: AudioClassifier._calculate_summary applied  *)
(* to the predictions of one recording's slices.  Percentages are kept in  *)
(* hundredths of a percent (round(x, 2) of the source).                    *)
(***************************************************************************)

MaxPredictions == 4
PredictionLabels == {"normal", "abnormal", "unknown"}

\* sum(1 for p in predictions if p['prediction'] == label)
CountOf(predictions, label) ==
    Cardinality({i \in 1..Len(predictions) : predictions[i] = label})

\* round((count / total) * 100, 2), in hundredths
Percentage(count, total) == (count * 10000 + total \div 2) \div total

\* if abnormal_count > normal_count ... elif normal_count > abnormal_count ...
\* else 'uncertain'
FinalPrediction(normal_count, abnormal_count) ==
    IF abnormal_count > normal_count THEN "abnormal"
    ELSE IF normal_count > abnormal_count THEN "normal"
    ELSE "uncertain"

CalculateSummary(predictions) ==
    LET total == Len(predictions)
        normal_count == CountOf(predictions, "normal")
        abnormal_count == CountOf(predictions, "abnormal")
        unknown_count == CountOf(predictions, "unknown")
    IN  IF total = 0
          THEN [total_segments |-> 0, normal_count |-> 0, abnormal_count |-> 0,
                unknown_count |-> 0, normal_percentage |-> 0, abnormal_percentage |-> 0,
                final_prediction |-> "unknown"]
          ELSE [total_segments |-> total, normal_count |-> normal_count,
                abnormal_count |-> abnormal_count, unknown_count |-> unknown_count,
                normal_percentage |-> Percentage(normal_count, total),
                abnormal_percentage |-> Percentage(abnormal_count, total),
                final_prediction |-> FinalPrediction(normal_count, abnormal_count)]

\* classify() summarises the predictions of a recording's slices
Summarise(predictions) ==
    /\ sumInput' = predictions
    /\ sumOut' = CalculateSummary(predictions)
    /\ UNCHANGED exceptSum

InitSummary ==
    /\ InitCoreIdle
    /\ InitSchedIdle
    /\ InitWorkerIdle
    /\ InitTickIdle
    /\ InitMonIdle
    /\ InitDelIdle
    /\ InitMoreIdle

NextSummary ==
    \E predictions \in SeqsUpTo(PredictionLabels, MaxPredictions) : Summarise(predictions)

SpecSummary == InitSummary /\ [][NextSummary]_vars

(***************************************************************************)
(* The per-label limit of the MIMII uploader: _apply_label_limit applied   *)
(* to the files of one label, which scan_directory lists folder by folder. *)
(***************************************************************************)

NumFolders == 3
MaxPerFolder == 4
MaxLimit == 6
Folders == 1..NumFolders

RECURSIVE FilesBefore(_, _)
\* the files of the label that the list holds before those of folder k
FilesBefore(sizes, k) == IF k = 1 THEN 0 ELSE FilesBefore(sizes, k - 1) + sizes[k - 1]

Smaller(x, y) == IF x < y THEN x ELSE y

\* the loop of _apply_label_limit: an entry is kept while fewer than limit
\* entries of its label were kept before it; a limit of 0 or less keeps all
ApplyLabelLimit(sizes, limit) ==
    IF limit <= 0 THEN sizes
    ELSE [k \in Folders |->
            IF FilesBefore(sizes, k) >= limit THEN 0
            ELSE Smaller(sizes[k], limit - FilesBefore(sizes, k))]

\* batch_upload() limits the scanned files
LimitFiles(sizes, limit) ==
    /\ limFolders' = sizes
    /\ limLimit' = limit
    /\ limKept' = ApplyLabelLimit(sizes, limit)
    /\ UNCHANGED exceptLim

InitLimit ==
    /\ InitCoreIdle
    /\ InitSchedIdle
    /\ InitWorkerIdle
    /\ InitTickIdle
    /\ InitMonIdle
    /\ InitDelIdle
    /\ InitMoreIdle

NextLimit ==
    \E sizes \in [Folders -> 1..MaxPerFolder], limit \in 0..MaxLimit : LimitFiles(sizes, limit)

SpecLimit == InitLimit /\ [][NextLimit]_vars

(***************************************************************************)
(* Claims about process_record (checked under Spec).                       *)
(***************************************************************************)

\* C1: of the claim attempts the store evaluates against the same unclaimed
\* recording in one idle period, exactly one succeeds (never two, and one as
\* soon as an attempt has been evaluated without the store raising); every
\* attempt that does not succeed makes process_record return success at once,
\* having attempted no pipeline step and created no file.
C1_ClaimExclusive ==
    /\ wins <= 1
    /\ (attempted /\ ~claimFault) => wins = 1
    /\ \A w \in Workers :
         claimed[w] = "lost" =>
            /\ pc[w] = "done"
            /\ result[w] = "true"
            /\ tried[w] = <<>>
            /\ created[w] = {}

\* C1 witness: one call has just won the claim and is about to fetch the
\* file; another call's claim of the same recording lost and returned.
C1_Witness ==
    \E w1 \in Workers, w2 \in Workers :
        /\ claimed[w1] = "won"
        /\ pc[w1] = "fetch"
        /\ claimed[w2] = "lost"
        /\ pc[w2] = "done"
        /\ result[w2] = "true"
        /\ ~claimFault

\* C2: within one process_record call the steps are attempted in strictly
\* increasing order, a step is attempted only after every earlier step the
\* recording requires has succeeded, Step 0 is attempted only for a file that
\* needs conversion, and after a step has failed no later step is attempted.
C2_StepsInOrder ==
    \A w \in Workers :
        /\ \A i \in 1..Len(tried[w]) :
              /\ tried[w][i] \in Required(fileExt)
              /\ \A j \in 1..(i - 1) : tried[w][j] < tried[w][i]
              /\ \A k \in Required(fileExt) :
                    k < tried[w][i] => k \in okSteps[w]
        /\ failedStep[w] # -1 =>
              /\ tried[w] # <<>>
              /\ tried[w][Len(tried[w])] = failedStep[w]

\* C2 witness: a call that ran Step 1 and Step 2, then failed in Step 3.
C2_Witness ==
    \E w \in Workers :
        /\ tried[w] = <<1, 2, 3>>
        /\ okSteps[w] = {1, 2}
        /\ failedStep[w] = 3

\* C3: whenever process_record has returned failure for a recording it had
\* claimed (that nobody re-queued since, and no _mark_error of the call
\* having been lost to a store fault), the recording is in status error.
C3_FailureMeansError ==
    \A w \in Workers :
        (/\ pc[w] = "done"
         /\ result[w] = "false"
         /\ claimed[w] = "won"
         /\ wonPeriod[w] = requeues
         /\ ~markLost[w])
        => analysis_status = "error"

\* C4: no step of the pipeline writes a current_step smaller than the one
\* stored (the operator's re-queue aside).
C4_StepOnlyAdvances == [][Requeue \/ current_step' >= current_step]_vars

\* C5: a recording that was in error at step k and was re-queued is matched
\* by the pending query until it is claimed, and the call that claims it
\* starts with step k (with the first required step when k is not one the
\* recording requires).
C5_ResumesFromFailedStep ==
    /\ (requeues > 0 /\ wins = 0) => PendingQuery(current_step, analysis_status)
    /\ \A w \in Workers :
         (/\ requeues > 0
          /\ claimed[w] = "won"
          /\ wonPeriod[w] = requeues
          /\ tried[w] # <<>>)
         => tried[w][1] = (IF resumeFrom \in Required(fileExt)
                           THEN resumeFrom
                           ELSE CHOOSE k \in Required(fileExt) :
                                    \A j \in Required(fileExt) : k <= j)

\* C6: when process_record has returned, none of the temporary files the
\* call created exists any more.
C6_TempFilesDeleted ==
    \A w \in Workers : pc[w] = "done" => created[w] \cap files = {}

\* C7: Step 2's lookup returns an entry that Step 1 persisted
\* (features_step = 1) and Step 3's lookup one that Step 2 persisted
\* (features_step = 2), wherever the entry lies in the array, and a lookup
\* that read the record never misses the entry.
C7_LookupByStepNumber ==
    \A w \in Workers :
        /\ found[w] # LookupMiss
        /\ pc[w] = "s2_run" =>
              /\ found[w] \in 1..Len(analyze_features.steps)
              /\ analyze_features.steps[found[w]].features_step = 1
              /\ analyze_features.steps[found[w]].features_data = "slices"
        /\ pc[w] = "s3_run" =>
              /\ found[w] \in 1..Len(analyze_features.steps)
              /\ analyze_features.steps[found[w]].features_step = 2
              /\ analyze_features.steps[found[w]].features_data = "leaf"

\* C7 witness: the input is a WAV, Step 0 was skipped, and Step 3 found
\* Step 2's output at position 2 of an array that holds no Step 0 entry.
C7_Witness ==
    \E w \in Workers :
        /\ fileExt = "wav"
        /\ pc[w] = "s3_run"
        /\ found[w] = 2
        /\ tried[w] = <<1, 2, 3>>
        /\ \A i \in 1..Len(analyze_features.steps) :
              analyze_features.steps[i].features_step # 0

\* C8: every run appended to a recording, by start_analysis_run or by the
\* batch domain-conversion job, gets a run_index greater than (and so
\* different from) every run_index present on the recording at that moment.
C8_RunIndexIncreasing ==
    [][nextId' # nextId =>
         \A i \in 1..Len(analyze_features.runs) :
            analyze_features'.runs[Len(analyze_features'.runs)].run_index
               > analyze_features.runs[i].run_index]_vars

\* C9: applying the upgrade repeatedly to a legacy step array returns the
\* same container every time and leaves it stored: for an array that holds
\* steps, exactly one run, legacy-<AnalyzeUUID>, run_index 1, with the
\* original steps (for an empty array, the container without runs).
C9_UpgradeIdempotent ==
    \A i \in 1..Len(returned) :
       /\ returned[i] = returned[1]
       /\ analyze_features = returned[i]
       /\ IF original.steps # <<>>
          THEN /\ Len(returned[i].runs) = 1
               /\ returned[i].runs[1].analysis_id = LegacyId
               /\ returned[i].runs[1].run_index = 1
               /\ returned[i].runs[1].steps = original.steps
               /\ returned[i].total_runs = 1
          ELSE returned[i] = BuildAnalysisContainer

C9_Witness ==
    /\ Len(returned) >= 2
    /\ Len(original.steps) = 2
    /\ Len(returned[2].runs) = 1
    /\ returned[2].runs[1].steps = original.steps

SentFor(k, r, a) ==
    {i \in 1..Len(sent) :
        sent[i].analyze_uuid = k /\ sent[i].rule_id = r /\ sent[i].action = a}

C12_TaskUsesNamedInstance ==
    \A t \in Tasks :
       /\ loadedFrom[t] # "none" => loadedFrom[t] = StoreNamed(tInstance[t])
       /\ pipeStore[t] # "none" => pipeStore[t] = StoreNamed(tInstance[t])

\* C13: stop() stops the consumer first, then the heartbeat thread, then
\* releases the pipeline and closes the connections, and no task enters
\* processing once stop() has begun.
C13_ConsumerStoppedFirst ==
    /\ ~startedLate
    /\ \A i \in 1..Len(stopLog) :
          /\ stopLog[i] = "heartbeat" => \E j \in 1..(i - 1) : stopLog[j] = "consumer"
          /\ stopLog[i] \in {"pipeline", "handler", "cached"} =>
                /\ \E j \in 1..(i - 1) : stopLog[j] = "consumer"
                /\ \E j \in 1..(i - 1) : stopLog[j] = "heartbeat"

\* Tasks between the increment and the decrement of _process_task
Counted == {t \in Tasks : tpc[t] \in {"connect", "load", "pipeline", "finally"}}

\* C14: the counter equals the number of tasks between their increment and
\* their decrement, whatever the outcome of each task: it is never negative,
\* it is 0 when no task is in progress, and the heartbeat sender holds the
\* same number.
C14_CounterMatchesTasks ==
    /\ currentTaskCount = Cardinality(Counted)
    /\ currentTaskCount >= 0
    /\ (\A t \in Tasks : tpc[t] = "idle") => currentTaskCount = 0
    /\ hbTasks = currentTaskCount

C14_Witness ==
    /\ deliveries = MaxDeliveries
    /\ currentTaskCount = 1
    /\ tpc[1] = "idle"
    /\ tpc[2] = "finally"
    /\ loadedFrom[2] = "none"
    /\ tHandler[2] = "none"

(***************************************************************************)
(* Claims about the recording schedules (checked under SpecSchedules).     *)
(***************************************************************************)

\* C15: whatever the number and interleaving of client connects, at most
\* one schedule_checker background task is alive at any time.
C15_OneCheckerRunning ==
    Cardinality({k \in Checkers : Alive(k)}) <= 1

\* a connect found the flag set while a task started after an earlier one
\* died is running
C15_Witness ==
    /\ \E c \in Clients : connPc[c] = "skipped"
    /\ \E k \in Checkers : chkPc[k] = "dead"
    /\ \E k \in Checkers : chkPc[k] = "locked"

C17_ExactlyCountCommands ==
    \A i \in ScheduleIds :
       (i < nextSchedule /\ schedObj[i].count # NoCount) =>
          /\ recordsSent[i] <= schedObj[i].count
          /\ (recordsSent[i] = schedObj[i].count /\ schedObj[i].count > 0) =>
                \A j \in 1..Len(device_schedules) : device_schedules[j][2] # i
          /\ i \in removedOnCompletion => recordsSent[i] = schedObj[i].count

(***************************************************************************)
(* Claims about the node monitor (checked under SpecMonitor).              *)
(***************************************************************************)

\* C18: at every tick, a node listed at this tick and at the tick before
\* gets exactly one notification, of the matching kind, when its status
\* differs between the two ticks, and none when it is the same.
C18_OneNotificationPerTransition ==
    \A n \in NodeIds :
       (priorListing[n] # "absent" /\ tickListing[n] # "absent") =>
          notified[n] = IF priorListing[n] = tickListing[n] THEN <<0, 0>>
                        ELSE IF tickListing[n] = "online" THEN <<1, 0>>
                        ELSE <<0, 1>>

\* a tick at which node 1 came back online and node 2 stayed offline
C18_Witness ==
    /\ priorListing = [n \in NodeIds |-> "offline"]
    /\ tickListing[1] = "online"
    /\ tickListing[2] = "offline"
    /\ notified[1] = <<1, 0>>
    /\ notified[2] = <<0, 0>>

(***************************************************************************)
(* Claims about the destructive bulk operations (checked under SpecDelete) *)
(***************************************************************************)

NothingDestroyed ==
    deletedByOp = {} /\ flaggedByOp = {} /\ blobsDeletedByOp = {}

C20_BackupBeforeDelete ==
    (opKind = "reset" \/ backupBeforeDelete) =>
       /\ (deletedByOp \cup flaggedByOp) \subseteq backupSet
       /\ (deletedByOp \cup flaggedByOp) # {} => backupDone

\* C28: a failure while one device's schedule is fired does not end the
\* schedule checker: every task that was started is still in its polling
\* loop.
C28_CheckerSurvivesTickFailure ==
    \A k \in Checkers : chkPc[k] \in {"unborn", "sleep", "iter", "locked"}

(***************************************************************************)
(* Claims about the instance watchers (checked under SpecWatchers).        *)
(***************************************************************************)

\* C25 as stated: once a watcher thread of an instance reached the retry
\* ceiling, no further connection or watch attempt is made for that instance.
C25_AbandonedForGood ==
    \A i \in InstanceIds : ~triedAfterGiveUp[i]

\* C25: a watcher thread sleeps 5 seconds times the number of its failures
\* after each failure, ends at its third failure and makes no attempt after
\* that; a later attempt for the instance is made only by a new thread that
\* the supervisory loop started, and that thread counts from zero again.
C25_ThreadGivesUpAtCeiling ==
    \A i \in InstanceIds :
        /\ retry_count[i] <= max_retries
        /\ lastDelay[i] = 5 * retry_count[i]
        /\ retry_count[i] = max_retries => wPc[i] = "dead"
        /\ (wPc[i] = "dead" /\ schedRunning) => retry_count[i] = max_retries
        /\ triedAfterGiveUp[i] => restarted[i]

C25_Witness ==
    \E i \in InstanceIds :
        /\ gaveUp[i]
        /\ wPc[i] = "dead"
        /\ retry_count[i] = max_retries
        /\ lastDelay[i] = 15
        /\ ~restarted[i]

\* C26: while the scheduler is running, a pass of the supervisory loop leaves
\* no instance without a live watcher thread: as long as no thread has ended
\* since the last pass, every instance has a thread that is alive.
C26_DeadWatcherRestarted ==
    (schedRunning /\ supervised) => \A i \in InstanceIds : wPc[i] \in {"trying", "watching"}

C26_Witness ==
    \E i \in InstanceIds :
        /\ schedRunning
        /\ supervised
        /\ gaveUp[i]
        /\ restarted[i]
        /\ wPc[i] = "trying"
        /\ retry_count[i] = 0

(***************************************************************************)
(* Claims about the polling watcher (checked under SpecPolling).           *)
(***************************************************************************)

\* C27: every recording inserted while the polling watcher runs is handed to
\* routing exactly once: it is never dispatched twice, and once
\* last_check_time has passed its upload time (so that no later query selects
\* it) it has been dispatched.
C27_DispatchedExactlyOnce ==
    \A u \in duringWatch :
        /\ dispatched[u] <= 1
        /\ upload_time[u] <= last_check_time => dispatched[u] = 1

(***************************************************************************)
(* Claims about the node registry (checked under SpecRegistry).            *)
(***************************************************************************)

\* C29: once a heartbeat of a running worker has been handled after the TTL
\* index removed the worker's document, the worker is in the registry again.
C29_HeartbeatRestoresNode ==
    \A n \in NodeIds : (workerUp[n] /\ beatAfterExpiry[n]) => nodeDoc[n]

(***************************************************************************)
(* Claims about the control plane's routes (checked under SpecAccess).     *)
(***************************************************************************)

\* C21: a control-plane object is only ever changed by a request of a
\* logged-in admin, and a read route answers only logged-in requesters.
C21_OnlyAdminsMutate ==
    /\ \A k \in Kinds : lastWriter[k] \in {"none", "admin"}
    /\ readBy \subseteq {"user", "admin"}

(***************************************************************************)
(* Claims about the upload paths (checked under SpecUpload).               *)
(***************************************************************************)

\* C22: when the first of two batch runs uploaded a file and the second run
\* has met the same file, the collection holds exactly one document and the
\* blob store exactly one blob for it, and the second run counted it as
\* skipped.
C22_SecondRunSkips ==
    (upOutcome[1] = "success" /\ upPc[2] = "done") =>
        /\ Len(upDocs["batch"]) = 1
        /\ Cardinality(upBlobs["batch"]) = 1
        /\ upOutcome[2] = "skipped"

\* C30: every blob an upload path stored is referenced by exactly one
\* document: no blob is left without a document.
C30_NoOrphanBlob ==
    \A f \in UploadedFiles :
        /\ Orphans(f) = {}
        /\ \A i, j \in 1..Len(upDocs[f]) : upDocs[f][i] = upDocs[f][j] => i = j

(***************************************************************************)
(* Claims about the classification summary (checked under SpecSummary).    *)
(***************************************************************************)

\* C23: the summary's final prediction is normal when the normal slices
\* outnumber the abnormal ones, abnormal when the abnormal ones outnumber the
\* normal ones, unknown when every prediction is unknown, and uncertain on
\* any other tie; for [normal, normal, abnormal, unknown] it reports total 4,
\* 50.0 and 25.0 percent, and normal.
C23_FinalPredictionByMajority ==
    sumOut # NoSummary =>
        LET n == CountOf(sumInput, "normal")
            a == CountOf(sumInput, "abnormal")
        IN  /\ n > a => sumOut.final_prediction = "normal"
            /\ a > n => sumOut.final_prediction = "abnormal"
            /\ (n = a /\ n > 0) => sumOut.final_prediction = "uncertain"
            /\ CountOf(sumInput, "unknown") = Len(sumInput) =>
                   sumOut.final_prediction = "unknown"
            /\ sumInput = <<"normal", "normal", "abnormal", "unknown">> =>
                   /\ sumOut.total_segments = 4
                   /\ sumOut.normal_percentage = 5000
                   /\ sumOut.abnormal_percentage = 2500
                   /\ sumOut.final_prediction = "normal"

(***************************************************************************)
(* Claims about the per-label limit (checked under SpecLimit).             *)
(***************************************************************************)

\* C24: with a positive limit L, at most L files of the label are kept, and
\* they are balanced over the source folders: every folder keeps its even
\* share of L, or all of its files when it has fewer; with L = 6 and three
\* folders of four files, two files are kept from every folder.
C24_LimitBalancedOverFolders ==
    (limKept # <<>> /\ limLimit > 0) =>
        /\ FilesBefore(limKept, NumFolders + 1) <= limLimit
        /\ \A k \in Folders : limKept[k] >= Smaller(limFolders[k], limLimit \div NumFolders)
        /\ (limLimit = 6 /\ limFolders = [k \in Folders |-> 4]) =>
               limKept = [k \in Folders |-> 2]

====
